---- MODULE Spec2Model ----
(***************************************************************************)
(* Inspection-item conclusion verifier of pdf-report-checker               *)
(* (python_backend/services/inspection_item_checker.py).                   *)
(*                                                                         *)
(* Strings are sequences of text pieces.  A piece is one character, or     *)
(* one fixed run of CJK characters that only occurs as a whole:            *)
(*   " "  a blank            "/"  U+002F          "-"  U+002D              *)
(*   "_"  U+005F             "em" U+2014 (the em dash; "----" in the       *)
(*                                source is two of them)                   *)
(*   "bu"     U+4E0D  (not)                                                *)
(*   "fuhe"   U+7B26 U+5408 (conforms)                                     *)
(*   "yaoqiu" U+8981 U+6C42 (requirement; any other text)                  *)
(*   "1", "2", "5", "." digits and the dot of item and clause numbers      *)
(* Python's None is the one-piece sequence <<"None">>, which is no string. *)
(***************************************************************************)
EXTENDS Naturals, Sequences, FiniteSets

VARIABLES
    pc,         \* position of the running call: "call", "done"
    args,       \* the arguments of the running call
    ret,        \* its return value (NoValue before it returns)
    run,        \* number of calls made on the checker instance before this one
    emitted     \* history: the item statuses its calls of _check_items returned

vars == <<pc, args, ret, run, emitted>>

NoValue == <<"NoValue">>
None == <<"None">>

(***************************************************************************)
(* Python string helpers                                                   *)
(***************************************************************************)
IsSpace(c) == c = " "

IsStr(v) == v # None

\* truth value of a str-or-None: None and "" are falsy
Truthy(v) == v # None /\ v # <<>>

RECURSIVE lstrip(_)
lstrip(s) ==
    IF s = <<>> THEN <<>>
    ELSE IF IsSpace(Head(s)) THEN lstrip(Tail(s))
    ELSE s

RECURSIVE rstrip(_)
rstrip(s) ==
    IF s = <<>> THEN <<>>
    ELSE IF IsSpace(s[Len(s)]) THEN rstrip(SubSeq(s, 1, Len(s) - 1))
    ELSE s

\* str.strip()
strip(s) == rstrip(lstrip(s))

\* sub in s
Contains(s, sub) ==
    \E i \in 1..(Len(s) + 1) :
        /\ i + Len(sub) - 1 <= Len(s)
        /\ SubSeq(s, i, i + Len(sub) - 1) = sub

(***************************************************************************)
(* ConclusionStatus                                                        *)
(***************************************************************************)
PASS == <<"fuhe">>
FAIL == <<"bu", "fuhe">>
NA == <<"/">>
DoubleDash == <<"em", "em">>

RequirementCheck(text, result, remark) ==
    [requirement_text |-> text, inspection_result |-> result, remark |-> remark]

(***************************************************************************)
(* _calculate_expected_conclusion                                          *)
(***************************************************************************)
na_values == {NA, DoubleDash, <<>>, None}

\* variant: a result that is blank only after trimming is not taken as NA
all_results_na_untrimmed(results) ==
    \A i \in 1..Len(results) : results[i] \in na_values

\* variant: the single dashes are taken as NA markers too
all_results_na_single_dash(results) ==
    \A i \in 1..Len(results) :
        \/ results[i] \in na_values \cup {<<"em">>, <<"-">>}
        \/ results[i] = None
        \/ (IsStr(results[i]) /\ ~Truthy(strip(results[i])))

all_results_na(results) ==
    \A i \in 1..Len(results) :
        \/ results[i] \in na_values
        \/ results[i] = None
        \/ (IsStr(results[i]) /\ ~Truthy(strip(results[i])))

\* variant: equality with the fail mark instead of the substring test
any_result_fails_exact(results) ==
    \E i \in 1..Len(results) : results[i] = FAIL

\* variant: only the first result is looked at
any_result_fails_first(results) ==
    Len(results) > 0 /\ Truthy(results[1]) /\ Contains(results[1], FAIL)

any_result_fails(results) ==
    \E i \in 1..Len(results) : Truthy(results[i]) /\ Contains(results[i], FAIL)

calculate_expected_conclusion(requirements) ==
    LET results == [i \in 1..Len(requirements) |-> requirements[i].inspection_result]
    IN  IF any_result_fails(results) THEN FAIL
        ELSE IF all_results_na(results) THEN NA
        ELSE PASS

(***************************************************************************)
(* _is_conclusion_valid                                                    *)
(***************************************************************************)
\* variant: the exception applied in both directions
is_conclusion_valid_symmetric(actual, expected) ==
    IF actual = expected THEN TRUE
    ELSE IF {actual, expected} = {NA, PASS} THEN TRUE
    ELSE FALSE

is_conclusion_valid(actual, expected) ==
    IF actual = expected THEN TRUE
    ELSE IF expected = NA /\ actual = PASS THEN TRUE
    ELSE FALSE

(***************************************************************************)
(* _is_field_filled                                                        *)
(***************************************************************************)
\* variant: the single dashes count as filled, as the docstring lists them
is_field_filled_dashes_legal(value, allow_na) ==
    IF value = None THEN FALSE
    ELSE Truthy(strip(value))

SingleDashes == {<<"em">>, <<"-">>}

is_field_filled(value, allow_na) ==
    IF value = None THEN FALSE
    ELSE IF ~IsStr(value) THEN FALSE
    ELSE LET stripped == strip(value)
         IN  IF ~Truthy(stripped) THEN FALSE
             ELSE IF allow_na
                  THEN (IF stripped \in SingleDashes THEN FALSE ELSE TRUE)
                  ELSE TRUE

(***************************************************************************)
(* InspectionTableRow, ClauseCheck, InspectionItemCheck                    *)
(***************************************************************************)
InspectionTableRow(item_number, item_name, clause_number, requirement_text, inspection_result, conclusion, remark) ==
    [item_number |-> item_number, item_name |-> item_name,
     clause_number |-> clause_number, requirement_text |-> requirement_text,
     inspection_result |-> inspection_result, conclusion |-> conclusion,
     remark |-> remark, page_num |-> 0, row_index |-> 0,
     is_first_row_in_page |-> FALSE, original_item_number |-> <<>>,
     has_continuation_mark |-> FALSE]

ClauseCheck(clause_number, requirements, conclusion, expected_conclusion, is_conclusion_correct) ==
    [clause_number |-> clause_number, requirements |-> requirements,
     conclusion |-> conclusion, expected_conclusion |-> expected_conclusion,
     is_conclusion_correct |-> is_conclusion_correct]

InspectionItemCheck(item_number, item_name, clauses, issues, status) ==
    [item_number |-> item_number, item_name |-> item_name, clauses |-> clauses,
     issues |-> issues, status |-> status]

(***************************************************************************)
(* _extract_number: int of the first run of digits, 0 without digits       *)
(***************************************************************************)
Digits == {"0", "1", "2", "3", "4", "5", "6", "7", "8", "9"}

DigitValue(c) ==
    CASE c = "0" -> 0 [] c = "1" -> 1 [] c = "2" -> 2 [] c = "3" -> 3 [] c = "4" -> 4
      [] c = "5" -> 5 [] c = "6" -> 6 [] c = "7" -> 7 [] c = "8" -> 8 [] c = "9" -> 9

RECURSIVE DigitRun(_)
\* the longest prefix of s made of digits
DigitRun(s) ==
    IF s = <<>> \/ Head(s) \notin Digits THEN <<>>
    ELSE <<Head(s)>> \o DigitRun(Tail(s))

RECURSIVE FirstDigitRun(_)
\* re.search(r'\d+', s): the leftmost, longest run of digits (<<>>: no match)
FirstDigitRun(s) ==
    IF s = <<>> THEN <<>>
    ELSE IF Head(s) \in Digits THEN DigitRun(s)
    ELSE FirstDigitRun(Tail(s))

RECURSIVE ParseInt(_)
ParseInt(d) ==
    IF d = <<>> THEN 0
    ELSE 10 * ParseInt(SubSeq(d, 1, Len(d) - 1)) + DigitValue(d[Len(d)])

extract_number(s) ==
    LET match == FirstDigitRun(s)
    IN  IF match # <<>> THEN ParseInt(match) ELSE 0

(***************************************************************************)
(* Ordering of str: by code point, piece by piece                          *)
(***************************************************************************)
\* code point of the first character of a piece
Ord(c) ==
    CASE c = " " -> 32 [] c = "-" -> 45 [] c = "." -> 46 [] c = "/" -> 47
      [] c \in Digits -> 48 + DigitValue(c)
      [] c = "_" -> 95 [] c = "em" -> 8212 [] c = "bu" -> 19981
      [] c = "yaoqiu" -> 35201 [] c = "fuhe" -> 31526 [] c = "xu" -> 32493
      [] c = "xu1" -> 24207 [] c = "hao" -> 21495 [] c = "jian" -> 26816
      [] c = "yan" -> 39564 [] c = "xiang" -> 39033 [] c = "mu" -> 30446
      [] c = "biao" -> 26631 [] c = "zhun" -> 20934 [] c = "tiao" -> 26465
      [] c = "kuan" -> 27454 [] c = "jie" -> 32467 [] c = "guo" -> 26524
      [] c = "dan" -> 21333 [] c = "lun" -> 35770 [] c = "bei" -> 22791
      [] c = "zhu" -> 27880

RECURSIVE StrLess(_, _)
\* a < b on str
StrLess(a, b) ==
    IF b = <<>> THEN FALSE
    ELSE IF a = <<>> THEN TRUE
    ELSE IF Head(a) # Head(b) THEN Ord(Head(a)) < Ord(Head(b))
    ELSE StrLess(Tail(a), Tail(b))

(***************************************************************************)
(* dict keys in insertion order, sorted()                                  *)
(***************************************************************************)
RECURSIVE InsertionOrder(_)
\* the distinct values of s in the order of their first occurrence
InsertionOrder(s) ==
    IF s = <<>> THEN <<>>
    ELSE LET before == InsertionOrder(SubSeq(s, 1, Len(s) - 1))
             last == s[Len(s)]
         IN  IF \E i \in 1..Len(before) : before[i] = last THEN before
             ELSE Append(before, last)

\* the keys sorted as text instead of by their number
sorted_item_numbers_as_text(keys) ==
    LET n == Len(keys)
        rank(i) == Cardinality({j \in 1..n : StrLess(keys[j], keys[i])}) + 1
    IN  [r \in 1..n |-> keys[CHOOSE i \in 1..n : rank(i) = r]]

\* sorted(keys, key=self._extract_number): stable, ties keep insertion order
sorted_item_numbers(keys) ==
    LET n == Len(keys)
        num(i) == extract_number(keys[i])
        rank(i) == Cardinality({j \in 1..n :
                       num(j) < num(i) \/ (num(j) = num(i) /\ j < i)}) + 1
    IN  [r \in 1..n |-> keys[CHOOSE i \in 1..n : rank(i) = r]]

\* the keys left in the order of their first appearance
sorted_clause_numbers_first_seen(keys) == keys

\* sorted(item_data['clauses'].keys()): distinct keys in str order
sorted_clause_numbers(keys) ==
    LET n == Len(keys)
        rank(i) == Cardinality({j \in 1..n : StrLess(keys[j], keys[i])}) + 1
    IN  [r \in 1..n |-> keys[CHOOSE i \in 1..n : rank(i) = r]]

(***************************************************************************)
(* _check_items                                                            *)
(***************************************************************************)
ItemRows(rows, item_num) == SelectSeq(rows, LAMBDA r : r.item_number = item_num)

ClauseRows(rows, item_num, clause_num) ==
    SelectSeq(ItemRows(rows, item_num), LAMBDA r : r.clause_number = clause_num)

\* items_dict[item_num]['clauses'][clause_num]['conclusion']: set by the row
\* that creates the clause entry, never overwritten
clause_conclusion(group) == group[1].conclusion

clause_requirements(group) ==
    [i \in 1..Len(group) |->
        RequirementCheck(group[i].requirement_text, group[i].inspection_result,
                         group[i].remark)]

check_clause(rows, item_num, clause_num) ==
    LET group == ClauseRows(rows, item_num, clause_num)
        requirements == clause_requirements(group)
        actual_conclusion == clause_conclusion(group)
        expected_conclusion == calculate_expected_conclusion(requirements)
        is_correct == is_conclusion_valid(actual_conclusion, expected_conclusion)
    IN  ClauseCheck(clause_num, requirements, actual_conclusion, expected_conclusion,
                    is_correct)

\* the entry appended to item_issues for a clause that is not correct
ConclusionIssue(item_num, clause) ==
    [item_number |-> item_num, clause_number |-> clause.clause_number,
     expected |-> clause.expected_conclusion, actual |-> clause.conclusion]

\* variant: an item with recorded issues is a warning before it is a fail
item_status_warning_first(clauses, item_issues) ==
    IF item_issues # <<>> THEN "warning"
    ELSE IF \E i \in 1..Len(clauses) : ~clauses[i].is_conclusion_correct THEN "fail"
    ELSE "pass"

item_status(clauses, item_issues) ==
    IF \E i \in 1..Len(clauses) : ~clauses[i].is_conclusion_correct THEN "fail"
    ELSE IF item_issues # <<>> THEN "warning"
    ELSE "pass"

check_item(rows, item_num) ==
    LET item_rows == ItemRows(rows, item_num)
        clause_keys ==
            InsertionOrder([i \in 1..Len(item_rows) |-> item_rows[i].clause_number])
        ordered == sorted_clause_numbers(clause_keys)
        clauses == [i \in 1..Len(ordered) |-> check_clause(rows, item_num, ordered[i])]
        incorrect == SelectSeq(clauses, LAMBDA c : ~c.is_conclusion_correct)
        item_issues == [i \in 1..Len(incorrect) |-> ConclusionIssue(item_num, incorrect[i])]
    IN  InspectionItemCheck(item_num, item_rows[1].item_name, clauses, item_issues,
                            item_status(clauses, item_issues))

check_items(rows) ==
    LET item_keys == InsertionOrder([i \in 1..Len(rows) |-> rows[i].item_number])
        ordered == sorted_item_numbers(item_keys)
    IN  [i \in 1..Len(ordered) |-> check_item(rows, ordered[i])]

(***************************************************************************)
(* _check_non_empty_fields                                                 *)
(***************************************************************************)
EMPTY_INSPECTION_RESULT == "EMPTY_FIELD_001"
EMPTY_CONCLUSION == "EMPTY_FIELD_002"
EMPTY_REMARK == "EMPTY_FIELD_003"

\* f"{row.item_number}_{row.clause_number}"
item_clause_key(row) == row.item_number \o <<"_">> \o row.clause_number

RECURSIVE last_item_clause_key(_, _)
\* last_item_clause_key when the loop reaches rows[idx]
last_item_clause_key(rows, idx) ==
    IF idx = 1 THEN None
    ELSE LET before == last_item_clause_key(rows, idx - 1)
             current_key == item_clause_key(rows[idx - 1])
         IN  IF current_key # before THEN current_key ELSE before

is_first_row_of_key(rows, idx) ==
    item_clause_key(rows[idx]) # last_item_clause_key(rows, idx)

\* not row.inspection_result or not row.inspection_result.strip()
result_is_blank(row) ==
    ~Truthy(row.inspection_result) \/ ~Truthy(strip(row.inspection_result))

RECURSIVE later_row_has_result(_, _, _)
\* the scan of rows[idx + 1:]: true at the first row of the key that has a
\* result, false at the first row of another key or at the end
later_row_has_result(rows, current_key, next) ==
    IF next > Len(rows) THEN FALSE
    ELSE IF item_clause_key(rows[next]) = current_key /\ ~result_is_blank(rows[next])
    THEN TRUE
    ELSE IF item_clause_key(rows[next]) # current_key THEN FALSE
    ELSE later_row_has_result(rows, current_key, next + 1)

is_title_row(rows, idx) ==
    /\ is_first_row_of_key(rows, idx)
    /\ result_is_blank(rows[idx])
    /\ later_row_has_result(rows, item_clause_key(rows[idx]), idx + 1)

\* value.strip() if value else None
effective(value) == IF Truthy(value) THEN strip(value) ELSE None

EmptyFieldError(row, idx, code) ==
    [error_code |-> code, item_number |-> row.item_number,
     item_name |-> row.item_name, clause_number |-> row.clause_number,
     row_index |-> idx - 1]

\* the errors the loop body appends for rows[idx]
row_empty_field_errors(rows, idx) ==
    IF is_title_row(rows, idx) THEN <<>>
    ELSE (IF ~is_field_filled(effective(rows[idx].inspection_result), TRUE)
          THEN <<EmptyFieldError(rows[idx], idx, EMPTY_INSPECTION_RESULT)>> ELSE <<>>)
      \o (IF ~is_field_filled(effective(rows[idx].conclusion), TRUE)
          THEN <<EmptyFieldError(rows[idx], idx, EMPTY_CONCLUSION)>> ELSE <<>>)
      \o (IF ~is_field_filled(effective(rows[idx].remark), TRUE)
          THEN <<EmptyFieldError(rows[idx], idx, EMPTY_REMARK)>> ELSE <<>>)

RECURSIVE empty_field_errors_upto(_, _)
empty_field_errors_upto(rows, n) ==
    IF n = 0 THEN <<>>
    ELSE empty_field_errors_upto(rows, n - 1) \o row_empty_field_errors(rows, n)

check_non_empty_fields(rows) == empty_field_errors_upto(rows, Len(rows))

(***************************************************************************)
(* Input domains of the function-level specifications                      *)
(***************************************************************************)
\* every string of at most two pieces
ShortStrings(P) ==
    {<<>>} \cup {<<a>> : a \in P} \cup {<<a, b>> : a \in P, b \in P}

ResultPieces == {" ", "/", "-", "em", "bu", "fuhe", "yaoqiu"}

ResultValues ==
    ShortStrings(ResultPieces)
        \cup {None, <<"bu", "fuhe", "yaoqiu">>, <<" ", "em", "em">>, <<" ", "/", " ">>}

ConclusionPieces == {" ", "/", "em", "bu", "fuhe"}

ConclusionValues == ShortStrings(ConclusionPieces)

\* largest number of requirements of one clause group
MaxRequirements == 2

RequirementLists ==
    UNION {[1..n -> {RequirementCheck(<<"yaoqiu">>, r, <<>>) : r \in ResultValues}] :
              n \in 0..MaxRequirements}

(***************************************************************************)
(* Function-level specifications: one call of one function                 *)
(***************************************************************************)
InitCalc ==
    /\ pc = "call"
    /\ \E reqs \in RequirementLists :
           args = [fn |-> "_calculate_expected_conclusion", requirements |-> reqs]
    /\ ret = NoValue
    /\ run = 0
    /\ emitted = {}

CalculateExpectedConclusion ==
    /\ pc = "call"
    /\ args.fn = "_calculate_expected_conclusion"
    /\ ret' = calculate_expected_conclusion(args.requirements)
    /\ pc' = "done"
    /\ UNCHANGED <<args, run, emitted>>

SpecCalc == InitCalc /\ [][CalculateExpectedConclusion]_vars

InitValid ==
    /\ pc = "call"
    /\ \E a \in ConclusionValues, e \in ConclusionValues :
           args = [fn |-> "_is_conclusion_valid", actual |-> a, expected |-> e]
    /\ ret = NoValue
    /\ run = 0
    /\ emitted = {}

IsConclusionValid ==
    /\ pc = "call"
    /\ args.fn = "_is_conclusion_valid"
    /\ ret' = is_conclusion_valid(args.actual, args.expected)
    /\ pc' = "done"
    /\ UNCHANGED <<args, run, emitted>>

SpecValid == InitValid /\ [][IsConclusionValid]_vars

InitFilled ==
    /\ pc = "call"
    /\ \E v \in ResultValues, na \in BOOLEAN :
           args = [fn |-> "_is_field_filled", value |-> v, allow_na |-> na]
    /\ ret = NoValue
    /\ run = 0
    /\ emitted = {}

IsFieldFilled ==
    /\ pc = "call"
    /\ args.fn = "_is_field_filled"
    /\ ret' = is_field_filled(args.value, args.allow_na)
    /\ pc' = "done"
    /\ UNCHANGED <<args, run, emitted>>

SpecFilled == InitFilled /\ [][IsFieldFilled]_vars

(***************************************************************************)
(* _check_items on resolved rows                                           *)
(***************************************************************************)
ItemNumberChoices == << <<"1">>, <<"2">> >>
ClauseNumberChoices == << <<"5", ".", "1">>, <<"5", ".", "2">> >>
InspectionResultChoices ==
    << <<>>, DoubleDash, <<"fuhe", "yaoqiu">>, <<"bu", "fuhe", "yaoqiu">> >>
ConclusionChoices == << <<>>, PASS, FAIL, NA >>

\* number of different rows of the _check_items specifications
ItemRowCount ==
    Len(ItemNumberChoices) * Len(ClauseNumberChoices)
        * Len(InspectionResultChoices) * Len(ConclusionChoices)

\* the d-th row, d in 0..ItemRowCount-1 (mixed radix over the four choices)
ItemRowAt(d) ==
    LET d1 == d \div Len(ItemNumberChoices)
        d2 == d1 \div Len(ClauseNumberChoices)
        d3 == d2 \div Len(InspectionResultChoices)
    IN  InspectionTableRow(
            ItemNumberChoices[(d % Len(ItemNumberChoices)) + 1],
            <<"yaoqiu">>,
            ClauseNumberChoices[(d1 % Len(ClauseNumberChoices)) + 1],
            <<"yaoqiu">>,
            InspectionResultChoices[(d2 % Len(InspectionResultChoices)) + 1],
            ConclusionChoices[(d3 % Len(ConclusionChoices)) + 1],
            <<>>)

ItemRowValues == {ItemRowAt(d) : d \in 0..(ItemRowCount - 1)}

\* largest number of rows handed to _check_items
MaxRows == 2

Init ==
    /\ pc = "call"
    /\ \E n \in 0..MaxRows : \E rs \in [1..n -> ItemRowValues] :
           args = [fn |-> "_check_items", rows |-> rs]
    /\ ret = NoValue
    /\ run = 0
    /\ emitted = {}

CheckItems ==
    /\ pc = "call"
    /\ args.fn = "_check_items"
    /\ ret' = check_items(args.rows)
    /\ emitted' = emitted \cup {ret'[i].status : i \in 1..Len(ret')}
    /\ pc' = "done"
    /\ UNCHANGED <<args, run>>

Next == CheckItems

Spec == Init /\ [][Next]_vars

(***************************************************************************)
(* The same checker instance called on one table after the other           *)
(* (ReportChecker keeps one InspectionItemChecker): the calls run through  *)
(* every row sequence of at most MaxRows rows, shortest first.             *)
(***************************************************************************)
RECURSIVE Power(_, _)
Power(b, n) == IF n = 0 THEN 1 ELSE b * Power(b, n - 1)

RECURSIVE SequencesUpTo(_)
\* number of row sequences of at most n rows
SequencesUpTo(n) ==
    IF n = 0 THEN 1 ELSE SequencesUpTo(n - 1) + Power(ItemRowCount, n)

\* the k-th row sequence, shortest first, k in 0..SequencesUpTo(MaxRows)-1
RowsOfRun(k) ==
    LET n == CHOOSE m \in 0..MaxRows :
                 /\ k < SequencesUpTo(m)
                 /\ m > 0 => k >= SequencesUpTo(m - 1)
        offset == IF n = 0 THEN 0 ELSE k - SequencesUpTo(n - 1)
    IN  [i \in 1..n |-> ItemRowAt((offset \div Power(ItemRowCount, i - 1)) % ItemRowCount)]

InitSweep ==
    /\ pc = "call"
    /\ args = [fn |-> "_check_items", rows |-> RowsOfRun(0)]
    /\ ret = NoValue
    /\ run = 0
    /\ emitted = {}

NextCall ==
    /\ pc = "done"
    /\ args.fn = "_check_items"
    /\ run + 1 < SequencesUpTo(MaxRows)
    /\ run' = run + 1
    /\ args' = [args EXCEPT !.rows = RowsOfRun(run')]
    /\ ret' = NoValue
    /\ pc' = "call"
    /\ UNCHANGED emitted

NextSweep == CheckItems \/ NextCall

SpecSweep == InitSweep /\ [][NextSweep]_vars

(***************************************************************************)
(* _check_non_empty_fields on resolved rows                                *)
(***************************************************************************)
\* (item_number, clause_number) of a row; the second and the third pair are
\* different pairs with the same key text
FieldKeyChoices ==
    << <<(<<"1">>), (<<"2">>)>>,
       <<(<<"1", "_">>), (<<"2">>)>>,
       <<(<<"1">>), (<<"_", "2">>)>> >>
FieldResultChoices == << <<>>, <<" ">>, <<"fuhe", "yaoqiu">> >>
FieldConclusionChoices == << <<>>, PASS >>
FieldRemarkChoices == << <<>>, NA >>

FieldRowValues ==
    {InspectionTableRow(FieldKeyChoices[k][1], <<"yaoqiu">>, FieldKeyChoices[k][2],
                        <<"yaoqiu">>, FieldResultChoices[r],
                        FieldConclusionChoices[c], FieldRemarkChoices[m]) :
        k \in 1..Len(FieldKeyChoices), r \in 1..Len(FieldResultChoices),
        c \in 1..Len(FieldConclusionChoices), m \in 1..Len(FieldRemarkChoices)}

\* largest number of rows handed to _check_non_empty_fields
MaxFieldRows == 3

InitFields ==
    /\ pc = "call"
    /\ \E n \in 0..MaxFieldRows : \E rs \in [1..n -> FieldRowValues] :
           args = [fn |-> "_check_non_empty_fields", rows |-> rs]
    /\ ret = NoValue
    /\ run = 0
    /\ emitted = {}

CheckNonEmptyFields ==
    /\ pc = "call"
    /\ args.fn = "_check_non_empty_fields"
    /\ ret' = check_non_empty_fields(args.rows)
    /\ pc' = "done"
    /\ UNCHANGED <<args, run, emitted>>

SpecFields == InitFields /\ [][CheckNonEmptyFields]_vars

(***************************************************************************)
(* Table headers, _is_inspection_table, _get_column_indices                *)
(* Header text is spelled with one piece per character:                    *)
(*   "xu1" U+5E8F  "hao" U+53F7      "jian" U+68C0  "yan" U+9A8C           *)
(*   "xiang" U+9879  "mu" U+76EE     "biao" U+6807  "zhun" U+51C6          *)
(*   "tiao" U+6761  "kuan" U+6B3E    "jie" U+7ED3   "guo" U+679C           *)
(*   "dan" U+5355   "lun" U+8BBA     "bei" U+5907   "zhu" U+6CE8           *)
(***************************************************************************)
H_ITEM_NUMBER == <<"xu1", "hao">>
H_ITEM_NAME == <<"jian", "yan", "xiang", "mu">>
H_CLAUSE == <<"biao", "zhun", "tiao", "kuan">>
H_REQUIREMENT == <<"biao", "zhun", "yaoqiu">>
H_RESULT == <<"jian", "yan", "jie", "guo">>
H_CONCLUSION == <<"dan", "xiang", "jie", "lun">>
H_REMARK == <<"bei", "zhu">>

TABLE_HEADERS ==
    <<H_ITEM_NUMBER, H_ITEM_NAME, H_CLAUSE, H_REQUIREMENT, H_RESULT, H_CONCLUSION, H_REMARK>>

\* [page_num, headers, rows] of models.schemas.TableData
TableData(page_num, headers, rows) ==
    [page_num |-> page_num, headers |-> headers, rows |-> rows]

\* None where a TableData is expected
NoTable == [none |-> TRUE]

\* re.sub(r'\s+', '', s)
remove_whitespace(s) == SelectSeq(s, LAMBDA c : ~IsSpace(c))

RECURSIVE join_with_space(_)
\* ' '.join(parts)
join_with_space(parts) ==
    IF parts = <<>> THEN <<>>
    ELSE IF Len(parts) = 1 THEN parts[1]
    ELSE parts[1] \o <<" ">> \o join_with_space(Tail(parts))

required_headers == <<H_ITEM_NUMBER, H_ITEM_NAME, H_CLAUSE, H_REQUIREMENT, H_RESULT, H_CONCLUSION>>

is_inspection_table(table_data) ==
    IF table_data = NoTable THEN FALSE
    ELSE IF table_data.headers = <<>> THEN FALSE
    ELSE LET headers_clean == remove_whitespace(join_with_space(table_data.headers))
         IN  \A k \in 1..Len(required_headers) : Contains(headers_clean, required_headers[k])

\* the branch of the if/elif chain of lines 295-308 that a header takes
\* (0: none)
header_branch(header) ==
    LET header_clean == remove_whitespace(strip(header))
    IN  IF Contains(header_clean, H_ITEM_NUMBER) THEN 1
        ELSE IF Contains(header_clean, H_ITEM_NAME) THEN 2
        ELSE IF Contains(header_clean, H_CLAUSE) THEN 3
        ELSE IF Contains(header_clean, H_REQUIREMENT) THEN 4
        ELSE IF Contains(header_clean, H_RESULT) THEN 5
        ELSE IF Contains(header_clean, H_CONCLUSION) THEN 6
        ELSE IF Contains(header_clean, H_REMARK) THEN 7
        ELSE 0

\* the dict of column name -> 0-based index; a later header of the same
\* name overwrites an earlier one
get_column_indices(headers) ==
    LET found == {<<header_branch(headers[idx]), idx>> : idx \in 1..Len(headers)}
        named == {f \in found : f[1] # 0}
    IN  [name \in {TABLE_HEADERS[f[1]] : f \in named} |->
            LET at == {f[2] : f \in {g \in named : TABLE_HEADERS[g[1]] = name}}
            IN  (CHOOSE idx \in at : \A j \in at : j <= idx) - 1]

\* col_indices.get(name, default)
col_index(col_indices, name, default) ==
    IF name \in DOMAIN col_indices THEN col_indices[name] ELSE default

(***************************************************************************)
(* _map_row_columns                                                        *)
(***************************************************************************)
\* row[i] if i < num_cols and row[i] else '': the guarded cell, not stripped
cell_text_unstripped(row, i) ==
    IF i < Len(row) /\ Truthy(row[i + 1]) THEN row[i + 1] ELSE <<>>

\* row[i].strip() if i < num_cols and row[i] else ''
cell_text(row, i) ==
    IF i < Len(row) /\ Truthy(row[i + 1]) THEN strip(row[i + 1]) ELSE <<>>

RECURSIVE stripped_parts(_, _, _)
\* [row[i].strip() for i in range(from, to) if i < num_cols and row[i] and
\*  row[i].strip()]
stripped_parts(row, from, to) ==
    IF from >= to THEN <<>>
    ELSE (IF from < Len(row) /\ Truthy(row[from + 1]) /\ Truthy(strip(row[from + 1]))
          THEN <<strip(row[from + 1])>> ELSE <<>>)
         \o stripped_parts(row, from + 1, to)

\* re.match(r'^\d+$', s)
all_digits(s) == s # <<>> /\ \A k \in 1..Len(s) : s[k] \in Digits

empty_mapping ==
    [item_number |-> <<>>, item_name |-> <<>>, clause_number |-> <<>>,
     requirement_text |-> <<>>, inspection_result |-> <<>>, conclusion |-> <<>>,
     remark |-> <<>>]

\* the item name read from the clause column and the clause number from
\* the name column
map_full_row_name_and_clause_swapped(row, col_indices) ==
    [item_number |-> cell_text(row, col_index(col_indices, H_ITEM_NUMBER, 0)),
     item_name |-> cell_text(row, col_index(col_indices, H_CLAUSE, 2)),
     clause_number |-> cell_text(row, col_index(col_indices, H_ITEM_NAME, 1)),
     requirement_text |-> cell_text(row, col_index(col_indices, H_REQUIREMENT, 3)),
     inspection_result |-> cell_text(row, col_index(col_indices, H_RESULT, 4)),
     conclusion |-> cell_text(row, col_index(col_indices, H_CONCLUSION, 5)),
     remark |-> cell_text(row, col_index(col_indices, H_REMARK, 6))]

\* lines 342-350: as many cells as headers
map_full_row(row, col_indices) ==
    [item_number |-> cell_text(row, col_index(col_indices, H_ITEM_NUMBER, 0)),
     item_name |-> cell_text(row, col_index(col_indices, H_ITEM_NAME, 1)),
     clause_number |-> cell_text(row, col_index(col_indices, H_CLAUSE, 2)),
     requirement_text |-> cell_text(row, col_index(col_indices, H_REQUIREMENT, 3)),
     inspection_result |-> cell_text(row, col_index(col_indices, H_RESULT, 4)),
     conclusion |-> cell_text(row, col_index(col_indices, H_CONCLUSION, 5)),
     remark |-> cell_text(row, col_index(col_indices, H_REMARK, 6))]

\* lines 351-372: more cells than headers
\* (row[2] of line 356 is read unguarded: the code raises IndexError on a
\* row of fewer than 3 cells under a shorter header; no such row is called)
map_wide_row(row, col_indices, header_col_count) ==
    LET extra_cols == Len(row) - header_col_count
        req_start == col_index(col_indices, H_REQUIREMENT, 3)
    IN  [item_number |-> cell_text(row, 0),
         item_name |-> cell_text(row, 1),
         clause_number |-> cell_text(row, 2),
         requirement_text |->
             join_with_space(stripped_parts(row, req_start, req_start + 1 + extra_cols)),
         inspection_result |->
             cell_text(row, col_index(col_indices, H_RESULT, 4) + extra_cols),
         conclusion |->
             cell_text(row, col_index(col_indices, H_CONCLUSION, 5) + extra_cols),
         remark |-> cell_text(row, col_index(col_indices, H_REMARK, 6) + extra_cols)]

\* lines 373-382: a sub-row of 1 to 4 cells
map_sub_row(row) ==
    [empty_mapping EXCEPT
        !.requirement_text = join_with_space(stripped_parts(row, 0, Len(row) - 1)),
        !.inspection_result = cell_text(row, Len(row) - 1)]

\* lines 383-389
map_five_cell_row(row) ==
    [empty_mapping EXCEPT
        !.requirement_text = join_with_space(stripped_parts(row, 0, 3)),
        !.inspection_result = cell_text(row, 3),
        !.conclusion = cell_text(row, 4)]

\* the numbered row read as if the remark were always the missing column
map_six_cell_row_remark_missing(row) ==
    LET first_cell == cell_text(row, 0)
    IN  IF all_digits(first_cell) \/ Contains(first_cell, <<"xu">>)
        THEN [item_number |-> first_cell, item_name |-> cell_text(row, 1),
              clause_number |-> cell_text(row, 2),
              requirement_text |-> cell_text(row, 3),
              inspection_result |-> cell_text(row, 4), conclusion |-> cell_text(row, 5),
              remark |-> <<>>]
        ELSE [item_number |-> <<>>, item_name |-> cell_text(row, 0),
              clause_number |-> cell_text(row, 1),
              requirement_text |-> cell_text(row, 2),
              inspection_result |-> cell_text(row, 3),
              conclusion |-> cell_text(row, 4), remark |-> cell_text(row, 5)]

\* lines 390-422
map_six_cell_row(row) ==
    LET first_cell == cell_text(row, 0)
        col4_val == cell_text(row, 4)
        conclusion_values == {PASS, FAIL, NA, <<>>}
    IN  IF all_digits(first_cell) \/ Contains(first_cell, <<"xu">>)
        THEN IF col4_val \in conclusion_values
             THEN [item_number |-> first_cell, item_name |-> cell_text(row, 1),
                   clause_number |-> cell_text(row, 2),
                   requirement_text |-> cell_text(row, 3),
                   inspection_result |-> <<>>, conclusion |-> col4_val,
                   remark |-> cell_text(row, 5)]
             ELSE [item_number |-> first_cell, item_name |-> cell_text(row, 1),
                   clause_number |-> cell_text(row, 2),
                   requirement_text |-> cell_text(row, 3),
                   inspection_result |-> col4_val, conclusion |-> cell_text(row, 5),
                   remark |-> <<>>]
        ELSE [item_number |-> <<>>, item_name |-> cell_text(row, 0),
              clause_number |-> cell_text(row, 1),
              requirement_text |-> cell_text(row, 2),
              inspection_result |-> cell_text(row, 3),
              conclusion |-> cell_text(row, 4), remark |-> cell_text(row, 5)]

map_row_columns(row, col_indices, header_col_count) ==
    IF Len(row) >= header_col_count
    THEN IF Len(row) = header_col_count
         THEN map_full_row(row, col_indices)
         ELSE map_wide_row(row, col_indices, header_col_count)
    ELSE IF Len(row) <= 4 THEN map_sub_row(row)
    ELSE IF Len(row) = 5 THEN map_five_cell_row(row)
    ELSE IF Len(row) = 6 THEN map_six_cell_row(row)
    ELSE empty_mapping

(***************************************************************************)
(* _extract_number_from_continuation, _parse_inspection_tables             *)
(***************************************************************************)
\* x or y
Or(x, y) == IF Truthy(x) THEN x ELSE y

RECURSIVE skip_blanks_and_dashes(_)
\* what is left of s after \s*[\-\s]*
skip_blanks_and_dashes(s) ==
    IF s # <<>> /\ Head(s) \in {" ", "-"} THEN skip_blanks_and_dashes(Tail(s)) ELSE s

\* the digits captured where the pattern of line 634 matches at position i
digits_after_mark(s, i) ==
    IF s[i] = "xu" THEN DigitRun(skip_blanks_and_dashes(SubSeq(s, i + 1, Len(s))))
    ELSE <<>>

extract_number_from_continuation(s) ==
    IF ~Truthy(s) THEN <<>>
    ELSE LET hits == {i \in 1..Len(s) : digits_after_mark(s, i) # <<>>}
         IN  IF hits # {}
             THEN digits_after_mark(s, CHOOSE i \in hits : \A j \in hits : i <= j)
             ELSE FirstDigitRun(s)

\* line 236 with the row kept whenever its item-number cell is blank
is_header_row_literal_only(item_number, item_name) ==
    item_number = H_ITEM_NUMBER /\ ~Truthy(item_name)

\* item_number in ['序号', ''] and not item_name
is_header_row(item_number, item_name) ==
    item_number \in {H_ITEM_NUMBER, <<>>} /\ ~Truthy(item_name)

\* one pass of the loop body of lines 220-284
parse_row(st, row, page_num, col_indices, header_col_count) ==
    IF Len(row) < 2 THEN st
    ELSE
    LET mapped == map_row_columns(row, col_indices, header_col_count)
        original_item_number == mapped.item_number
        real_number == extract_number_from_continuation(mapped.item_number)
        has_continuation_mark ==
            /\ Truthy(mapped.item_number)
            /\ Contains(mapped.item_number, <<"xu">>)
            /\ Truthy(real_number)
        marked_number == IF has_continuation_mark THEN real_number ELSE mapped.item_number
        is_continuation ==
            /\ (~Truthy(original_item_number) \/ has_continuation_mark)
            /\ Truthy(st.last_item_number)
            /\ (~Truthy(original_item_number) \/ marked_number = st.last_item_number)
        item_number == IF is_continuation THEN st.last_item_number ELSE marked_number
        item_name ==
            IF is_continuation /\ ~Truthy(mapped.item_name) THEN st.last_item_name
            ELSE mapped.item_name
        clause_number ==
            IF ~Truthy(mapped.clause_number) /\ Truthy(st.last_clause_number)
            THEN st.last_clause_number
            ELSE mapped.clause_number
        is_new_item == Truthy(item_number) /\ item_number # st.last_item_number
        last_item_number == IF is_new_item THEN item_number ELSE st.last_item_number
        last_item_name == IF is_new_item THEN item_name ELSE st.last_item_name
        last_clause_number ==
            IF Truthy(clause_number) THEN clause_number ELSE st.last_clause_number
    IN  IF is_header_row(mapped.item_number, mapped.item_name) THEN st
        ELSE [all_rows |->
                  Append(st.all_rows,
                         [item_number |-> Or(item_number, last_item_number),
                          item_name |-> Or(item_name, last_item_name),
                          clause_number |-> Or(clause_number, last_clause_number),
                          requirement_text |-> mapped.requirement_text,
                          inspection_result |-> mapped.inspection_result,
                          conclusion |-> mapped.conclusion,
                          remark |-> mapped.remark,
                          page_num |-> page_num,
                          row_index |-> st.row_index,
                          is_first_row_in_page |-> st.is_first_data_row,
                          original_item_number |-> original_item_number,
                          has_continuation_mark |-> has_continuation_mark]),
              last_item_number |-> last_item_number,
              last_item_name |-> last_item_name,
              last_clause_number |-> last_clause_number,
              row_index |-> st.row_index + 1,
              is_first_data_row |-> FALSE]

RECURSIVE parse_rows_upto(_, _, _, _)
\* the inner loop over the first n rows of one table
parse_rows_upto(st, table_data, col_indices, n) ==
    IF n = 0 THEN [st EXCEPT !.is_first_data_row = TRUE]
    ELSE parse_row(parse_rows_upto(st, table_data, col_indices, n - 1),
                   table_data.rows[n], table_data.page_num, col_indices,
                   Len(table_data.headers))

RECURSIVE parse_tables_upto(_, _)
\* the outer loop over the first n tables
parse_tables_upto(tables, n) ==
    IF n = 0
    THEN [all_rows |-> <<>>, last_item_number |-> <<>>, last_item_name |-> <<>>,
          last_clause_number |-> <<>>, row_index |-> 0, is_first_data_row |-> TRUE]
    ELSE LET st == parse_tables_upto(tables, n - 1)
         IN  IF tables[n] = NoTable THEN st
             ELSE LET col_indices == get_column_indices(tables[n].headers)
                  IN  parse_rows_upto(st, tables[n], col_indices, Len(tables[n].rows))

parse_inspection_tables(tables) == parse_tables_upto(tables, Len(tables)).all_rows

(***************************************************************************)
(* _check_serial_number_continuity                                         *)
(***************************************************************************)
NOT_CONTINUOUS == "SERIAL_NUMBER_ERROR_001"
EMPTY == "SERIAL_NUMBER_ERROR_002"
MISSING == "CONTINUATION_MARK_ERROR_001"
WRONG_POSITION == "CONTINUATION_MARK_ERROR_002"

\* the em-free text of U+7EED, the continuation character
XU == <<"xu">>

\* x in list
InSeq(x, list) == \E k \in 1..Len(list) : list[k] = x

\* line 1100 without the strip: only "" is empty
item_number_is_empty_untrimmed(row) == ~Truthy(row.item_number)

\* not row.item_number or row.item_number.strip() == ''
item_number_is_empty(row) == ~Truthy(row.item_number) \/ strip(row.item_number) = <<>>

\* the loop variables before the first row
serial_start ==
    [seen_numbers |-> <<>>, last_page_num |-> 0, last_item_number |-> <<>>, errors |-> <<>>]

EmptyError(row, idx) ==
    [error_code |-> EMPTY, row_index |-> idx - 1, page_num |-> row.page_num,
     item_name |-> row.item_name]

NotContinuousError(row, seen_numbers) ==
    [error_code |-> NOT_CONTINUOUS,
     expected |-> extract_number(seen_numbers[Len(seen_numbers) - 1]) + 1,
     actual |-> extract_number(row.item_number),
     previous_item |-> seen_numbers[Len(seen_numbers) - 1],
     current_item |-> row.item_number,
     page_num |-> row.page_num]

MissingError(row) ==
    [error_code |-> MISSING, item_number |-> row.item_number, page_num |-> row.page_num,
     expected_mark |-> XU \o row.item_number, actual_mark |-> row.original_item_number]

WrongPositionError(row, idx) ==
    [error_code |-> WRONG_POSITION, item_number |-> row.item_number,
     original_mark |-> row.original_item_number, page_num |-> row.page_num,
     row_index |-> idx - 1, is_first_row |-> row.is_first_row_in_page]

\* lines 1118-1139 without the test prev_num > 0 of line 1125
continuity_errors_no_prev_guard(row, seen_numbers, is_new) ==
    IF /\ is_new
       /\ extract_number(row.item_number) > 0
       /\ Len(seen_numbers) > 1
       /\ extract_number(row.item_number)
              # extract_number(seen_numbers[Len(seen_numbers) - 1]) + 1
    THEN <<NotContinuousError(row, seen_numbers)>>
    ELSE <<>>

\* lines 1118-1139; seen_numbers is the list after the append of line 1119,
\* is_new the test of line 1118
continuity_errors(row, seen_numbers, is_new) ==
    IF /\ is_new
       /\ extract_number(row.item_number) > 0
       /\ Len(seen_numbers) > 1
       /\ extract_number(seen_numbers[Len(seen_numbers) - 1]) > 0
       /\ extract_number(row.item_number)
              # extract_number(seen_numbers[Len(seen_numbers) - 1]) + 1
    THEN <<NotContinuousError(row, seen_numbers)>>
    ELSE <<>>

\* lines 1142-1160 without the test of line 1146
missing_mark_errors_any_row(row, last_page_num, last_item_number) ==
    IF /\ row.page_num # last_page_num /\ last_page_num > 0
       /\ row.item_number = last_item_number
       /\ ~row.has_continuation_mark
    THEN <<MissingError(row)>>
    ELSE <<>>

\* lines 1142-1160
missing_mark_errors(row, last_page_num, last_item_number) ==
    IF /\ row.page_num # last_page_num /\ last_page_num > 0
       /\ row.item_number = last_item_number
       /\ row.is_first_row_in_page
       /\ ~row.has_continuation_mark
    THEN <<MissingError(row)>>
    ELSE <<>>

\* lines 1163-1176 without the test of the row's position
wrong_position_errors_any_marked(row, idx) ==
    IF row.has_continuation_mark THEN <<WrongPositionError(row, idx)>> ELSE <<>>

\* lines 1163-1176
wrong_position_errors(row, idx) ==
    IF row.has_continuation_mark /\ ~row.is_first_row_in_page
    THEN <<WrongPositionError(row, idx)>>
    ELSE <<>>

\* one pass of the loop body (lines 1088-1179) over rows[idx], from the loop
\* variables st
serial_step(st, rows, idx) ==
    LET row == rows[idx]
    IN  IF item_number_is_empty(row)
        THEN [st EXCEPT !.errors = @ \o <<EmptyError(row, idx)>>]
        ELSE LET is_new == ~InSeq(row.item_number, st.seen_numbers)
                 seen == IF is_new THEN Append(st.seen_numbers, row.item_number)
                         ELSE st.seen_numbers
             IN  [seen_numbers |-> seen,
                  last_page_num |-> row.page_num,
                  last_item_number |-> row.item_number,
                  errors |-> st.errors
                      \o continuity_errors(row, seen, is_new)
                      \o missing_mark_errors(row, st.last_page_num, st.last_item_number)
                      \o wrong_position_errors(row, idx)]

RECURSIVE serial_state_upto(_, _)
serial_state_upto(rows, n) ==
    IF n = 0 THEN serial_start
    ELSE serial_step(serial_state_upto(rows, n - 1), rows, n)

check_serial_number_continuity(rows) ==
    IF rows = <<>> THEN <<>>
    ELSE serial_state_upto(rows, Len(rows)).errors

\* the rows handed to the validator: item numbers "1", "2", "3" with or
\* without a mark, and the blank one, first of their page or not, on pages 1
\* and 2 (pages count from 1, pdf_parser.py line 63); a mark-only cell (no
\* digits) and a whitespace-only item number.  A row with a mark carries the
\* digits that followed it (lines 241-246), so a marked row is never blank.
SerialItemNumbers == {<<"1">>, <<"2">>, <<"3">>}

SerialRow(item_number, page_num, is_first, has_mark) ==
    [InspectionTableRow(item_number, <<"yaoqiu">>, <<"5", ".", "1">>, <<"yaoqiu">>,
                        <<"fuhe", "yaoqiu">>, PASS, NA)
        EXCEPT !.page_num = page_num,
               !.is_first_row_in_page = is_first,
               !.has_continuation_mark = has_mark,
               !.original_item_number =
                   IF has_mark THEN XU \o item_number ELSE item_number]

SerialRowValues ==
    {SerialRow(n, p, f, m) : n \in SerialItemNumbers, p \in {1, 2},
                             f \in BOOLEAN, m \in BOOLEAN}
    \cup {SerialRow(<<>>, p, f, FALSE) : p \in {1, 2}, f \in BOOLEAN}
    \cup {SerialRow(<<" ">>, 1, FALSE, FALSE), SerialRow(XU, 1, FALSE, FALSE)}

MaxSerialRows == 3

InitSerial ==
    /\ pc = "call"
    /\ \E n \in 0..MaxSerialRows : \E rs \in [1..n -> SerialRowValues] :
           args = [fn |-> "_check_serial_number_continuity", rows |-> rs]
    /\ ret = NoValue
    /\ run = 0
    /\ emitted = {}

CheckSerialNumberContinuity ==
    /\ pc = "call"
    /\ args.fn = "_check_serial_number_continuity"
    /\ ret' = check_serial_number_continuity(args.rows)
    /\ pc' = "done"
    /\ UNCHANGED <<args, run, emitted>>

SpecSerial == InitSerial /\ [][CheckSerialNumberContinuity]_vars

(***************************************************************************)
(* _get_error_code                                                         *)
(***************************************************************************)
SHOULD_BE_NA == "CONCLUSION_MISMATCH_001"
SHOULD_BE_PASS == "CONCLUSION_MISMATCH_002"
SHOULD_BE_FAIL == "CONCLUSION_MISMATCH_003"
SHOULD_NOT_BE_FAIL == "CONCLUSION_MISMATCH_004"
MISMATCH_UNKNOWN == "CONCLUSION_MISMATCH_UNKNOWN"

get_error_code(expected, actual) ==
    IF expected = NA /\ actual # NA THEN SHOULD_BE_NA
    ELSE IF expected = PASS /\ actual # PASS
    THEN (IF actual = FAIL THEN SHOULD_NOT_BE_FAIL ELSE SHOULD_BE_PASS)
    ELSE IF expected = FAIL /\ actual # FAIL THEN SHOULD_BE_FAIL
    ELSE IF expected # FAIL /\ actual = FAIL THEN SHOULD_NOT_BE_FAIL
    ELSE MISMATCH_UNKNOWN

InitCode ==
    /\ pc = "call"
    /\ \E e \in ConclusionValues, a \in ConclusionValues :
           args = [fn |-> "_get_error_code", expected |-> e, actual |-> a]
    /\ ret = NoValue
    /\ run = 0
    /\ emitted = {}

GetErrorCode ==
    /\ pc = "call"
    /\ args.fn = "_get_error_code"
    /\ ret' = get_error_code(args.expected, args.actual)
    /\ pc' = "done"
    /\ UNCHANGED <<args, run, emitted>>

SpecCode == InitCode /\ [][GetErrorCode]_vars

(***************************************************************************)
(* _detect_inspection_tables, _collect_inspection_errors,                  *)
(* check_inspection_items                                                  *)
(***************************************************************************)
\* the tables of the pages, in page order, that pass the header test; each
\* is a TableData or NoTable, as extract_table_detailed returns it
detect_inspection_tables(extracted) ==
    SelectSeq(extracted, LAMBDA t : t # NoTable /\ is_inspection_table(t))

ConclusionError(item, clause) ==
    [error_code |-> get_error_code(clause.expected_conclusion, clause.conclusion),
     item_number |-> item.item_number, item_name |-> item.item_name,
     clause_number |-> clause.clause_number,
     expected |-> clause.expected_conclusion, actual |-> clause.conclusion]

RECURSIVE clause_errors_upto(_, _)
clause_errors_upto(item, n) ==
    IF n = 0 THEN <<>>
    ELSE clause_errors_upto(item, n - 1)
         \o (IF ~item.clauses[n].is_conclusion_correct
             THEN <<ConclusionError(item, item.clauses[n])>> ELSE <<>>)

RECURSIVE collect_errors_upto(_, _)
collect_errors_upto(item_checks, n) ==
    IF n = 0 THEN <<>>
    ELSE collect_errors_upto(item_checks, n - 1)
         \o clause_errors_upto(item_checks[n], Len(item_checks[n].clauses))

collect_inspection_errors(item_checks) == collect_errors_upto(item_checks, Len(item_checks))

RECURSIVE count_clauses(_, _)
\* sum(len(item.clauses) for item in item_checks[:n])
count_clauses(item_checks, n) ==
    IF n = 0 THEN 0
    ELSE count_clauses(item_checks, n - 1) + Len(item_checks[n].clauses)

RECURSIVE count_correct_clauses(_, _)
\* sum(1 for item in item_checks[:n] for clause in item.clauses
\*     if clause.is_conclusion_correct)
count_correct_clauses(item_checks, n) ==
    IF n = 0 THEN 0
    ELSE count_correct_clauses(item_checks, n - 1)
         + Cardinality({c \in 1..Len(item_checks[n].clauses) :
                           item_checks[n].clauses[c].is_conclusion_correct})

InspectionItemCheckResult(has_table, total_items, total_clauses, correct_conclusions, incorrect_conclusions, item_checks, cross_page_continuations, errors) ==
    [has_table |-> has_table, total_items |-> total_items,
     total_clauses |-> total_clauses, correct_conclusions |-> correct_conclusions,
     incorrect_conclusions |-> incorrect_conclusions, item_checks |-> item_checks,
     cross_page_continuations |-> cross_page_continuations, errors |-> errors]

\* line 128 with the count taken from the items instead of the clauses
incorrect_count_per_item(item_checks, total_clauses, correct_conclusions) ==
    Cardinality({i \in 1..Len(item_checks) : item_checks[i].status = "fail"})

\* incorrect_conclusions = total_clauses - correct_conclusions
incorrect_count(item_checks, total_clauses, correct_conclusions) ==
    total_clauses - correct_conclusions

\* lines 109-142: the audit of the resolved rows and their item tree
audit_result(tables, all_rows, item_checks) ==
    LET empty_field_errors == check_non_empty_fields(all_rows)
        serial_number_errors == check_serial_number_continuity(all_rows)
        total_clauses == count_clauses(item_checks, Len(item_checks))
        correct_conclusions == count_correct_clauses(item_checks, Len(item_checks))
    IN  InspectionItemCheckResult(
            TRUE, Len(item_checks), total_clauses, correct_conclusions,
            incorrect_count(item_checks, total_clauses, correct_conclusions),
            item_checks, Len(tables) - 1,
            empty_field_errors \o serial_number_errors
                \o collect_inspection_errors(item_checks))

\* all_rows and item_checks are computed once (lines 110 and 119) and
\* then handed on
check_inspection_items(extracted) ==
    LET tables == detect_inspection_tables(extracted)
    IN  IF tables = <<>>
        THEN InspectionItemCheckResult(FALSE, 0, 0, 0, 0, <<>>, 0, <<>>)
        ELSE CHOOSE result \in
                 {audit_result(tables, all_rows, item_checks) :
                      <<all_rows, item_checks>> \in
                          {<<rows, check_items(rows)>> :
                               rows \in {parse_inspection_tables(tables)}}} : TRUE

(***************************************************************************)
(* Calls of _is_inspection_table (SpecDetect)                              *)
(***************************************************************************)
\* the header lists: TABLE_HEADERS with any of its names left out, the full
\* list with a blank inside the first name, and one cell holding all names
HeaderLists ==
    LET HeaderSubsets ==
            {SelectSeq(TABLE_HEADERS, LAMBDA h : h \in keep) :
                keep \in SUBSET {H_ITEM_NUMBER, H_ITEM_NAME, H_CLAUSE, H_REQUIREMENT,
                                 H_RESULT, H_CONCLUSION, H_REMARK}}
        HeadersWithBlank == [TABLE_HEADERS EXCEPT ![1] = <<"xu1", " ", "hao">>]
        HeadersInOneCell == <<join_with_space(TABLE_HEADERS)>>
    IN  HeaderSubsets \cup {HeadersWithBlank, HeadersInOneCell}

InitDetect ==
    /\ pc = "call"
    /\ \E t \in {NoTable} \cup {TableData(1, h, <<>>) : h \in HeaderLists} :
           args = [fn |-> "_is_inspection_table", table_data |-> t]
    /\ ret = NoValue
    /\ run = 0
    /\ emitted = {}

IsInspectionTable ==
    /\ pc = "call"
    /\ args.fn = "_is_inspection_table"
    /\ ret' = is_inspection_table(args.table_data)
    /\ pc' = "done"
    /\ UNCHANGED <<args, run, emitted>>

SpecDetect == InitDetect /\ [][IsInspectionTable]_vars

(***************************************************************************)
(* Calls of _map_row_columns on rows as long as the header (SpecMap)       *)
(***************************************************************************)
CellChoices == {<<>>, <<"1">>, <<" ", "1", " ">>}

InitMap ==
    /\ pc = "call"
    /\ LET col_indices == get_column_indices(TABLE_HEADERS)
       IN  \E row \in [1..Len(TABLE_HEADERS) -> CellChoices] :
               args = [fn |-> "_map_row_columns", row |-> row,
                       col_indices |-> col_indices,
                       header_col_count |-> Len(TABLE_HEADERS)]
    /\ ret = NoValue
    /\ run = 0
    /\ emitted = {}

MapRowColumns ==
    /\ pc = "call"
    /\ args.fn = "_map_row_columns"
    /\ ret' = map_row_columns(args.row, args.col_indices, args.header_col_count)
    /\ pc' = "done"
    /\ UNCHANGED <<args, run, emitted>>

SpecMap == InitMap /\ [][MapRowColumns]_vars

(***************************************************************************)
(* Audits: _parse_inspection_tables (SpecParse) and                        *)
(* check_inspection_items (SpecAudit) on the tables of two pages           *)
(***************************************************************************)
\* the raw rows the extractor hands over: full rows with a number, with a
\* padded number, with a blank number (with and without a name), with a
\* mark before the number; a repeated header row; a two-cell sub-row
RawRows ==
    LET REQUIREMENT == <<"yaoqiu">>
        MEETS == <<"fuhe", "yaoqiu">>
        CLAUSE_1 == <<"5", ".", "1">>
        CLAUSE_2 == <<"5", ".", "2">>
    IN
        << << <<"1">>, REQUIREMENT, CLAUSE_1, REQUIREMENT, MEETS, PASS, NA >>,
           << <<" ", "2", " ">>, REQUIREMENT, CLAUSE_2, REQUIREMENT, DoubleDash, FAIL, NA >>,
           << <<>>, <<>>, <<>>, REQUIREMENT, MEETS, <<>>, <<>> >>,
           << <<>>, REQUIREMENT, <<>>, REQUIREMENT, <<>>, <<>>, <<>> >>,
           << <<"xu", "1">>, <<>>, CLAUSE_2, REQUIREMENT, <<"bu", "fuhe", "yaoqiu">>, PASS, NA >>,
           TABLE_HEADERS,
           << REQUIREMENT, MEETS >> >>

MaxRawRows == 3

\* the tables of a report of n raw rows, the first k of them on page 1, as
\* extract_table_detailed returns them: a table under the full header on
\* both pages; a header without the remark column on page 1; a header
\* without the conclusion column on page 2; None for page 1; and, for a
\* report with no row on page 1, None with a table without conclusion column
Extractions(n) ==
    LET WithoutHeader(name) == SelectSeq(TABLE_HEADERS, LAMBDA h : h # name)
        TablePairs(first, second) ==
            {<<TableData(1, TABLE_HEADERS, first), TableData(2, TABLE_HEADERS, second)>>,
             <<TableData(1, WithoutHeader(H_REMARK), first),
               TableData(2, TABLE_HEADERS, second)>>,
             <<TableData(1, TABLE_HEADERS, first),
               TableData(2, WithoutHeader(H_CONCLUSION), second)>>,
             <<NoTable, TableData(2, TABLE_HEADERS, second)>>}
            \cup (IF first = <<>>
                  THEN {<<NoTable, TableData(2, WithoutHeader(H_CONCLUSION), second)>>}
                  ELSE {})
    IN  UNION {TablePairs(SubSeq(rows, 1, k), SubSeq(rows, k + 1, n)) :
               k \in 0..n, rows \in [1..n -> {RawRows[d] : d \in 1..Len(RawRows)}]}

InitParse ==
    /\ pc = "call"
    /\ \E n \in 0..MaxRawRows : \E extracted \in Extractions(n) :
           args = [fn |-> "_parse_inspection_tables",
                   tables |-> detect_inspection_tables(extracted)]
    /\ ret = NoValue
    /\ run = 0
    /\ emitted = {}

ParseInspectionTables ==
    /\ pc = "call"
    /\ args.fn = "_parse_inspection_tables"
    /\ ret' = parse_inspection_tables(args.tables)
    /\ pc' = "done"
    /\ UNCHANGED <<args, run, emitted>>

SpecParse == InitParse /\ [][ParseInspectionTables]_vars

InitAudit ==
    /\ pc = "call"
    /\ \E n \in 0..MaxRawRows : \E extracted \in Extractions(n) :
           args = [fn |-> "check_inspection_items", extracted |-> extracted]
    /\ ret = NoValue
    /\ run = 0
    /\ emitted = {}

CheckInspectionItems ==
    /\ pc = "call"
    /\ args.fn = "check_inspection_items"
    /\ ret' = check_inspection_items(args.extracted)
    /\ pc' = "done"
    /\ UNCHANGED <<args, run, emitted>>

SpecAudit == InitAudit /\ [][CheckInspectionItems]_vars

(***************************************************************************)
(* Properties of _calculate_expected_conclusion (SpecCalc)                 *)
(***************************************************************************)
Returned(fn) == pc = "done" /\ args.fn = fn

CalcReturned == Returned("_calculate_expected_conclusion")

Results == [i \in 1..Len(args.requirements) |-> args.requirements[i].inspection_result]

\* the text of r holds "bu" directly followed by "fuhe"
HasFailText(r) ==
    r # None /\ \E i \in 1..Len(r) : i < Len(r) /\ r[i] = "bu" /\ r[i + 1] = "fuhe"

NoResultFails == \A i \in 1..Len(Results) : ~HasFailText(Results[i])

\* C1: the expected conclusion is the fail mark whenever at least one result
\* of the group contains the fail text, whatever the other results are and
\* wherever the failing result stands.
C1_FailPriority ==
    CalcReturned => ((\E i \in 1..Len(Results) : HasFailText(Results[i])) => ret = FAIL)

C1_Witness ==
    /\ CalcReturned
    /\ Len(Results) = 2
    /\ Results[1] = None
    /\ Results[2] = <<"bu", "fuhe", "yaoqiu">>
    /\ ret = FAIL

\* None, or one of "/", the double dash and "" once trimmed
NAAfterTrimming(r) == r = None \/ strip(r) \in {NA, DoubleDash, <<>>}

\* None, exactly "/" or the double dash, or blank once trimmed
NAAsWritten(r) == r = None \/ r \in {NA, DoubleDash} \/ strip(r) = <<>>

\* C2 as stated: the expected conclusion is "/" when no result contains the
\* fail text and every result is, after trimming, "/", the double dash, "" or
\* None.
C2_Original ==
    CalcReturned =>
        ((NoResultFails /\ \A i \in 1..Len(Results) : NAAfterTrimming(Results[i]))
            => ret = NA)

\* C2: the expected conclusion is "/" when every result is None, is exactly
\* "/" or the double dash (untrimmed), or is blank after trimming; the empty
\* sequence of results included.
C2_NAWhenAllNA ==
    CalcReturned =>
        ((NoResultFails /\ \A i \in 1..Len(Results) : NAAsWritten(Results[i]))
            => ret = NA)

C2_Witness ==
    /\ CalcReturned
    /\ Len(Results) = 2
    /\ Results[1] = DoubleDash
    /\ Results[2] = <<" ", " ">>
    /\ ret = NA

\* non-blank after trimming and neither "/" nor the double dash
RealContent(r) == r # None /\ strip(r) # <<>> /\ r \notin {NA, DoubleDash}

\* C3: the expected conclusion is the pass mark exactly when no result
\* contains the fail text and at least one result has real content (the
\* single dashes count as real content); the value is always one of the
\* three marks.
C3_PassExactly ==
    CalcReturned =>
        /\ ret = PASS <=>
              (NoResultFails /\ \E i \in 1..Len(Results) : RealContent(Results[i]))
        /\ ret \in {PASS, FAIL, NA}

C3_Witness ==
    /\ CalcReturned
    /\ Len(Results) = 2
    /\ Results[1] = <<"-">>
    /\ Results[2] = DoubleDash
    /\ ret = PASS

Permutations(n) == {p \in [1..n -> 1..n] : \A i, j \in 1..n : p[i] = p[j] => i = j}

Reordered(seq, p) == [i \in 1..Len(seq) |-> seq[p[i]]]

\* C4: the expected conclusion of every reordering of the requirements is
\* the one returned for the sequence as given.
C4_OrderIndependent ==
    CalcReturned =>
        \A p \in Permutations(Len(args.requirements)) :
            calculate_expected_conclusion(Reordered(args.requirements, p)) = ret

C4_Witness ==
    /\ CalcReturned
    /\ Len(Results) = 2
    /\ Results[1] = <<"fuhe", "yaoqiu">>
    /\ Results[2] = <<"bu", "fuhe">>
    /\ ret = FAIL

ItemsReturned == Returned("_check_items")

\* the rows of one (item, clause) group, in document order
GroupRows(item_num, clause_num) ==
    SelectSeq(args.rows,
              LAMBDA r : r.item_number = item_num /\ r.clause_number = clause_num)

\* the last conclusion of the group that is not blank ("" when all are blank)
LastNonBlankConclusion(group) ==
    LET filled == {i \in 1..Len(group) : strip(group[i].conclusion) # <<>>}
    IN  IF filled = {} THEN <<>>
        ELSE group[CHOOSE i \in filled : \A j \in filled : j <= i].conclusion

\* C6: the conclusion reported for every clause is the last non-blank
\* conclusion among the rows of its (item, clause) group in document order.
C6_LastNonBlankConclusion ==
    ItemsReturned =>
        \A i \in 1..Len(ret) : \A c \in 1..Len(ret[i].clauses) :
            ret[i].clauses[c].conclusion =
                LastNonBlankConclusion(
                    GroupRows(ret[i].item_number, ret[i].clauses[c].clause_number))

\* a group of two rows, both results the double dash, the conclusion blank on
\* the first row and the pass mark on the second
ScenarioB(group) ==
    /\ Len(group) = 2
    /\ \A k \in 1..2 : group[k].inspection_result = DoubleDash
    /\ group[1].conclusion = <<>>
    /\ group[2].conclusion = PASS

\* C7: for a group all of whose results are the double dash and whose pass
\* mark stands on the second row only, the expected conclusion is "/", the
\* clause is correct and no issue is recorded for it.
C7_ScenarioBCorrect ==
    ItemsReturned =>
        \A i \in 1..Len(ret) : \A c \in 1..Len(ret[i].clauses) :
            ScenarioB(GroupRows(ret[i].item_number, ret[i].clauses[c].clause_number)) =>
                /\ ret[i].clauses[c].expected_conclusion = NA
                /\ ret[i].clauses[c].is_conclusion_correct
                /\ \A k \in 1..Len(ret[i].issues) :
                       ret[i].issues[k].clause_number # ret[i].clauses[c].clause_number

HasIncorrectClause(item) ==
    \E c \in 1..Len(item.clauses) : ~item.clauses[c].is_conclusion_correct

\* an entry of item.issues that is not the mismatch of one of the item's
\* incorrect clauses
HasNonConclusionIssue(item) ==
    \E k \in 1..Len(item.issues) :
        ~\E c \in 1..Len(item.clauses) :
            /\ ~item.clauses[c].is_conclusion_correct
            /\ item.issues[k] = ConclusionIssue(item.item_number, item.clauses[c])

StatusRule(item) ==
    item.status = IF HasIncorrectClause(item) THEN "fail"
                  ELSE IF HasNonConclusionIssue(item) THEN "warning"
                  ELSE "pass"

\* the last call of the run through every input has returned
SweepComplete == ItemsReturned /\ run = SequencesUpTo(MaxRows) - 1

\* C8 as stated, its last part: each of the three statuses is produced for
\* some input, so once every input has been checked all three were emitted.
C8_Original == SweepComplete => {"fail", "warning", "pass"} \subseteq emitted

\* C8: every emitted item is "fail" if one of its clauses is incorrect,
\* otherwise "warning" if a non-conclusion issue was recorded for it,
\* otherwise "pass"; _check_items records conclusion issues only, so the
\* status is "fail" exactly when a clause is incorrect and "pass" otherwise,
\* and "warning" is never produced.
C8_StatusRule ==
    ItemsReturned =>
        \A i \in 1..Len(ret) :
            /\ StatusRule(ret[i])
            /\ Len(ret[i].issues) =
                   Cardinality({c \in 1..Len(ret[i].clauses) :
                                   ~ret[i].clauses[c].is_conclusion_correct})
            /\ ret[i].status = IF HasIncorrectClause(ret[i]) THEN "fail" ELSE "pass"

C8_Witness ==
    /\ ItemsReturned
    /\ Len(ret) = 2
    /\ ret[1].status = "fail"
    /\ ret[2].status = "pass"

(***************************************************************************)
(* Properties of _check_non_empty_fields (SpecFields)                      *)
(***************************************************************************)
FieldsReturned == Returned("_check_non_empty_fields")

PairKey(row) == <<row.item_number, row.clause_number>>

Blank(value) == strip(value) = <<>>

\* rows[i] starts a run of rows with its (item_number, clause_number)
FirstOfRun(rows, i) == i = 1 \/ PairKey(rows[i - 1]) # PairKey(rows[i])

\* a later row of the same pair has a result before a row of another pair
ChildHasResult(rows, i) ==
    \E j \in (i + 1)..Len(rows) :
        /\ PairKey(rows[j]) = PairKey(rows[i])
        /\ ~Blank(rows[j].inspection_result)
        /\ \A k \in (i + 1)..(j - 1) : PairKey(rows[k]) = PairKey(rows[i])

TitleRow(rows, i) ==
    FirstOfRun(rows, i) /\ Blank(rows[i].inspection_result) /\ ChildHasResult(rows, i)

ErrorsOfRow(i) == SelectSeq(ret, LAMBDA e : e.row_index = i - 1)

\* rows[i] has no result and still got no error: the loop skipped it
Skipped(i) == Blank(args.rows[i].inspection_result) /\ ErrorsOfRow(i) = <<>>

\* C10: a row is skipped (none of the three errors, whatever its conclusion
\* and remark) if and only if it is the first row of a run of rows with its
\* (item_number, clause_number), its result is blank and a later row of the
\* same pair has a result before a row of another pair occurs.
C10_TitleRowExactly ==
    FieldsReturned =>
        \A i \in 1..Len(args.rows) : Skipped(i) <=> TitleRow(args.rows, i)

\* C10 with the rows told apart by the key text item_number + "_" +
\* clause_number that the validator builds, instead of by the pair.
C10_TitleRowByKeyText ==
    FieldsReturned =>
        \A i \in 1..Len(args.rows) :
            Skipped(i) <=>
                /\ (i = 1 \/ item_clause_key(args.rows[i - 1]) # item_clause_key(args.rows[i]))
                /\ Blank(args.rows[i].inspection_result)
                /\ \E j \in (i + 1)..Len(args.rows) :
                       /\ ~Blank(args.rows[j].inspection_result)
                       /\ \A k \in (i + 1)..j :
                              item_clause_key(args.rows[k]) = item_clause_key(args.rows[i])

\* neither filled nor a legal not-applicable mark: blank once trimmed, or a
\* single dash
Unfilled(value) == Blank(value) \/ strip(value) \in {<<"-">>, <<"em">>}

\* the codes due for one row, in field order
UnfilledCodes(row) ==
    (IF Unfilled(row.inspection_result) THEN <<EMPTY_INSPECTION_RESULT>> ELSE <<>>)
    \o (IF Unfilled(row.conclusion) THEN <<EMPTY_CONCLUSION>> ELSE <<>>)
    \o (IF Unfilled(row.remark) THEN <<EMPTY_REMARK>> ELSE <<>>)

CodesOfRow(i) == [k \in 1..Len(ErrorsOfRow(i)) |-> ErrorsOfRow(i)[k].error_code]

RECURSIVE UnfilledOfNonTitleRows(_, _)
UnfilledOfNonTitleRows(rows, n) ==
    IF n = 0 THEN 0
    ELSE UnfilledOfNonTitleRows(rows, n - 1)
         + (IF TitleRow(rows, n) THEN 0 ELSE Len(UnfilledCodes(rows[n])))

\* C11: every row that is not a title row gets exactly one error per unfilled
\* field among inspection_result, conclusion and remark, judged on its own
\* values, so the number of errors is the sum over the non-title rows of
\* their unfilled fields (3 for an all-blank row).
C11_OneErrorPerUnfilledField ==
    FieldsReturned =>
        /\ \A i \in 1..Len(args.rows) :
               ~TitleRow(args.rows, i) => CodesOfRow(i) = UnfilledCodes(args.rows[i])
        /\ Len(ret) = UnfilledOfNonTitleRows(args.rows, Len(args.rows))

\* C11 with the title rows taken as the rows the validator skips: every
\* other row gets exactly one error per unfilled field.
C11_OneErrorPerUnfilledFieldOfCheckedRows ==
    FieldsReturned =>
        \A i \in 1..Len(args.rows) :
            ~is_title_row(args.rows, i) => CodesOfRow(i) = UnfilledCodes(args.rows[i])

(***************************************************************************)
(* Properties of _check_serial_number_continuity (SpecSerial)              *)
(***************************************************************************)
SerialReturned == Returned("_check_serial_number_continuity")

ErrorsWithCode(code) == SelectSeq(ret, LAMBDA e : e.error_code = code)

\* the members of S among 1..n, in increasing order
RECURSIVE Increasing(_, _)
Increasing(S, n) ==
    IF n = 0 THEN <<>>
    ELSE Increasing(S, n - 1) \o (IF n \in S THEN <<n>> ELSE <<>>)

\* the rows of the call, by index
RowSet == 1..Len(args.rows)

HasItemNumber(rows, i) == ~Blank(rows[i].item_number)

\* rows[i] carries an item number that no earlier row carries
FirstSeen(rows, i) ==
    HasItemNumber(rows, i) /\ \A j \in 1..(i - 1) : rows[j].item_number # rows[i].item_number

\* the row where the previously first-seen item number stands (0: none)
PrevFirstSeen(rows, i) ==
    LET earlier == {j \in 1..(i - 1) : FirstSeen(rows, j)}
    IN  IF earlier = {} THEN 0 ELSE CHOOSE j \in earlier : \A k \in earlier : k <= j

NumericValue(rows, i) == extract_number(rows[i].item_number)

\* a new item number whose value is not the previous new one's plus 1
Gap(rows, i) ==
    /\ FirstSeen(rows, i)
    /\ PrevFirstSeen(rows, i) # 0
    /\ NumericValue(rows, i) # NumericValue(rows, PrevFirstSeen(rows, i)) + 1

\* a gap between two item numbers that both hold a positive number
GapOfPositives(rows, i) ==
    /\ Gap(rows, i)
    /\ NumericValue(rows, i) > 0
    /\ NumericValue(rows, PrevFirstSeen(rows, i)) > 0

ExpectedActual(errors) ==
    [k \in 1..Len(errors) |-> <<errors[k].expected, errors[k].actual>>]

GapPairs(rows, at) ==
    [k \in 1..Len(at) |->
        <<NumericValue(rows, PrevFirstSeen(rows, at[k])) + 1, NumericValue(rows, at[k])>>]

\* C12 as stated: a NOT_CONTINUOUS error, with expected the previous new
\* number plus 1 and actual the current number, exactly when an item number
\* appears for the first time and its numeric value is not that of the
\* previously first-seen item number plus 1.
C12_Original ==
    SerialReturned =>
        ExpectedActual(ErrorsWithCode(NOT_CONTINUOUS)) =
            GapPairs(args.rows,
                     Increasing({i \in RowSet : Gap(args.rows, i)}, Len(args.rows)))

\* C12: the same, for item numbers that hold a positive number: a new item
\* number without digits (value 0) is not compared, and the item number
\* after it is not compared with it.
C12_GapOfPositiveNumbers ==
    SerialReturned =>
        ExpectedActual(ErrorsWithCode(NOT_CONTINUOUS)) =
            GapPairs(args.rows,
                     Increasing({i \in RowSet : GapOfPositives(args.rows, i)},
                                Len(args.rows)))

ItemNumbersOf(rows) == [i \in 1..Len(rows) |-> rows[i].item_number]

C12_Witness ==
    /\ SerialReturned
    /\ ItemNumbersOf(args.rows) = << <<"1">>, <<"3">> >>
    /\ ExpectedActual(ErrorsWithCode(NOT_CONTINUOUS)) = << <<2, 3>> >>

\* the nearest row before rows[i] that carries an item number (0: none)
PrevNumbered(rows, i) ==
    LET earlier == {j \in 1..(i - 1) : HasItemNumber(rows, j)}
    IN  IF earlier = {} THEN 0 ELSE CHOOSE j \in earlier : \A k \in earlier : k <= j

\* rows[i] continues the item of rows[j] across a page break and lacks the mark
ContinuesUnmarked(rows, i, j) ==
    /\ j # 0
    /\ rows[i].is_first_row_in_page
    /\ rows[i].page_num # rows[j].page_num
    /\ rows[i].item_number = rows[j].item_number
    /\ ~rows[i].has_continuation_mark

MarksExpected(rows, at) ==
    [k \in 1..Len(at) |-> <<rows[at[k]].page_num, XU \o rows[at[k]].item_number>>]

MarksReported(errors) ==
    [k \in 1..Len(errors) |-> <<errors[k].page_num, errors[k].expected_mark>>]

RowIndices(errors) == [k \in 1..Len(errors) |-> errors[k].row_index + 1]

Misplaced(rows, i) == rows[i].has_continuation_mark /\ ~rows[i].is_first_row_in_page

\* C14: a WRONG_POSITION error for a row if and only if the row has the
\* mark and is not the first row of its page; a marked row that is the first
\* row of its page never gets one.
C14_WrongPosition ==
    SerialReturned =>
        RowIndices(ErrorsWithCode(WRONG_POSITION)) =
            Increasing({i \in RowSet : Misplaced(args.rows, i)}, Len(args.rows))

C14_Witness ==
    /\ SerialReturned
    /\ Len(args.rows) = 2
    /\ args.rows[1].has_continuation_mark /\ args.rows[1].is_first_row_in_page
    /\ args.rows[1].item_number = <<"1">>
    /\ args.rows[2].has_continuation_mark /\ ~args.rows[2].is_first_row_in_page
    /\ args.rows[2].item_number = <<"1">>
    /\ RowIndices(ErrorsWithCode(WRONG_POSITION)) = <<2>>

CodeOfMismatch ==
    /\ Returned("_get_error_code")
    /\ args.expected \in {PASS, FAIL, NA}
    /\ ~(args.actual = args.expected \/ (args.expected = NA /\ args.actual = PASS))

\* C18 as stated: SHOULD_NOT_BE_FAIL whenever the actual conclusion is the
\* fail mark and the expected one is not; otherwise SHOULD_BE_NA for expected
\* "/", SHOULD_BE_PASS for expected pass, SHOULD_BE_FAIL for expected fail.
C18_Original ==
    CodeOfMismatch =>
        ret = IF args.actual = FAIL /\ args.expected # FAIL THEN SHOULD_NOT_BE_FAIL
              ELSE IF args.expected = NA THEN SHOULD_BE_NA
              ELSE IF args.expected = PASS THEN SHOULD_BE_PASS
              ELSE SHOULD_BE_FAIL

\* What the code does instead (supporting C18): SHOULD_BE_NA whenever the
\* expected conclusion is "/", also when the actual one is the fail mark, so
\* SHOULD_NOT_BE_FAIL is returned for expected pass and actual fail only.
C18_CodeByExpected ==
    CodeOfMismatch =>
        ret = IF args.expected = NA THEN SHOULD_BE_NA
              ELSE IF args.expected = PASS
              THEN (IF args.actual = FAIL THEN SHOULD_NOT_BE_FAIL ELSE SHOULD_BE_PASS)
              ELSE SHOULD_BE_FAIL

(***************************************************************************)
(* C16: item numbers after continuation resolution                         *)
(***************************************************************************)
ParseReturned == Returned("_parse_inspection_tables")

\* the raw rows of the call, by table and row, in reading order
RawPositions ==
    UNION {{<<t, r>> : r \in 1..Len(args.tables[t].rows)} : t \in 1..Len(args.tables)}

Before(p, q) == p[1] < q[1] \/ (p[1] = q[1] /\ p[2] < q[2])

RawRow(p) == args.tables[p[1]].rows[p[2]]

\* the raw rows as the parser reads them
MappedRows ==
    LET col_indices ==
            [t \in 1..Len(args.tables) |-> get_column_indices(args.tables[t].headers)]
    IN  [p \in RawPositions |->
            map_row_columns(RawRow(p), col_indices[p[1]], Len(args.tables[p[1]].headers))]

\* a row as long as its header, hence with an item-number cell
HasItemCell(p) == Len(RawRow(p)) >= Len(args.tables[p[1]].headers)

\* the item-number cell is blank and no earlier row supplied an item number
LeadingBlank(mapped, p) ==
    /\ HasItemCell(p)
    /\ mapped[p].item_number = <<>>
    /\ \A q \in RawPositions :
           (Before(q, p) /\ Len(RawRow(q)) >= 2) => mapped[q].item_number = <<>>

\* no item name, and no item number or the header's own word for it
Discarded(mapped, p) ==
    /\ mapped[p].item_name = <<>>
    /\ mapped[p].item_number = <<>> \/ mapped[p].item_number = H_ITEM_NUMBER

BlankResolved == {i \in 1..Len(ret) : Blank(ret[i].item_number)}

\* a resolved row without item number had a blank cell and no predecessor
\* with an item number
OnlyLeadingRowsAreBlank ==
    \A i \in BlankResolved :
        /\ ret[i].original_item_number = <<>>
        /\ \A j \in 1..(i - 1) : Blank(ret[j].item_number)

\* the serial validator reports every resolved row without item number
BlankRowsAreReported ==
    \E errors \in {check_serial_number_continuity(ret)} :
        \A i \in BlankResolved :
            \E k \in 1..Len(errors) :
                errors[k].error_code = EMPTY /\ errors[k].row_index = i - 1

\* C16 as stated: every resolved row has an item number, except the rows
\* whose item-number cell is blank while no earlier row supplied an item
\* number; each of these is kept with a blank item number and reported
\* EMPTY by the serial validator
C16_Original ==
    ParseReturned =>
        \E mapped \in {MappedRows} :
            /\ OnlyLeadingRowsAreBlank
            /\ Cardinality(BlankResolved) =
                   Cardinality({p \in RawPositions : LeadingBlank(mapped, p)})
            /\ BlankRowsAreReported

\* C16 (amended): every resolved row has an item number, except the rows
\* whose item-number cell is blank while no earlier row supplied an item
\* number; such a row is kept with a blank item number, and reported EMPTY
\* by the serial validator, when its item-name cell is filled, and it is
\* discarded when its item-name cell is blank too
C16_BlankLeadingRows ==
    ParseReturned =>
        \E mapped \in {MappedRows} :
            /\ OnlyLeadingRowsAreBlank
            /\ Cardinality(BlankResolved) =
                   Cardinality({p \in RawPositions :
                                    LeadingBlank(mapped, p) /\ Truthy(mapped[p].item_name)})
            /\ Len(ret) =
                   Cardinality({p \in RawPositions :
                                    Len(RawRow(p)) >= 2 /\ ~Discarded(mapped, p)})
            /\ BlankRowsAreReported

\* a report that opens with a row without item number and without item
\* name, discarded, and goes on with a named row without item number, kept
C16_Witness ==
    /\ ParseReturned
    /\ \E mapped \in {MappedRows} : \E p, q \in RawPositions :
           /\ Before(p, q)
           /\ LeadingBlank(mapped, p) /\ ~Truthy(mapped[p].item_name)
           /\ LeadingBlank(mapped, q) /\ Truthy(mapped[q].item_name)
    /\ BlankResolved # {}

(***************************************************************************)
(* C17: detection of the inspection-item table                             *)
(***************************************************************************)
DetectReturned == Returned("_is_inspection_table")

\* the table has headers that, joined and without whitespace, contain
\* every name of the list
HeadersContainAll(table_data, names) ==
    /\ table_data # NoTable
    /\ table_data.headers # <<>>
    /\ \A k \in 1..Len(names) :
           Contains(remove_whitespace(join_with_space(table_data.headers)), names[k])

\* C17: a table is detected as an inspection-item table only if its
\* headers, joined and stripped of whitespace, contain all seven column
\* names of TABLE_HEADERS; a table lacking one of them, a table without
\* headers and None are rejected
C17_Original ==
    DetectReturned => (ret = TRUE => HeadersContainAll(args.table_data, TABLE_HEADERS))

\* C17, what the code does: the table is detected exactly when its headers
\* contain the first six names (the remark column is not looked for)
C17_SixNamesDecide ==
    DetectReturned =>
        (ret = TRUE <=> HeadersContainAll(args.table_data, SubSeq(TABLE_HEADERS, 1, 6)))

(***************************************************************************)
(* C19: the counts of an audit                                             *)
(***************************************************************************)
AuditReturned == Returned("check_inspection_items")

MismatchCodes ==
    {SHOULD_BE_NA, SHOULD_BE_PASS, SHOULD_BE_FAIL, SHOULD_NOT_BE_FAIL, MISMATCH_UNKNOWN}

\* the clauses of the item tree, by item and clause
ClausesOfTree ==
    UNION {{<<i, k>> : k \in 1..Len(ret.item_checks[i].clauses)} :
           i \in 1..Len(ret.item_checks)}

MismatchErrors == {k \in 1..Len(ret.errors) : ret.errors[k].error_code \in MismatchCodes}

\* the extracted tables that are inspection-item tables
TablesFound ==
    {t \in 1..Len(args.extracted) :
         args.extracted[t] # NoTable /\ is_inspection_table(args.extracted[t])}

\* C19: in every result of check_inspection_items with has_table, the
\* number of items is the length of item_checks, the number of clauses is
\* the number of clauses of the tree, correct and incorrect conclusions add
\* up to the clauses, the incorrect conclusions are as many as the
\* conclusion-mismatch errors of the error list, and the cross-page
\* continuations are the tables found minus one
C19_Counts ==
    (AuditReturned /\ ret.has_table) =>
        /\ ret.total_items = Len(ret.item_checks)
        /\ ret.total_clauses = Cardinality(ClausesOfTree)
        /\ ret.correct_conclusions + ret.incorrect_conclusions = ret.total_clauses
        /\ ret.incorrect_conclusions = Cardinality(MismatchErrors)
        /\ ret.cross_page_continuations = Cardinality(TablesFound) - 1

\* an audit of two tables whose tree has a right and a wrong conclusion,
\* next to errors of the other validators
C19_Witness ==
    /\ AuditReturned
    /\ ret.has_table
    /\ ret.cross_page_continuations = 1
    /\ ret.correct_conclusions >= 1
    /\ ret.incorrect_conclusions >= 1
    /\ Len(ret.errors) > ret.incorrect_conclusions

(***************************************************************************)
(* C20: round trip of a row as long as the header                          *)
(***************************************************************************)
MapReturned == Returned("_map_row_columns")

\* the seven fields of a mapping, written back in column order
FieldsInColumnOrder(mapped) ==
    <<mapped.item_number, mapped.item_name, mapped.clause_number,
      mapped.requirement_text, mapped.inspection_result, mapped.conclusion,
      mapped.remark>>

StandardRow ==
    /\ Len(args.row) = args.header_col_count
    /\ args.header_col_count = Len(TABLE_HEADERS)
    /\ args.col_indices = get_column_indices(TABLE_HEADERS)

\* C20 as stated: the fields of a 7-cell row under the standard header,
\* written back in column order, are the original cells
C20_Original ==
    (MapReturned /\ StandardRow) => FieldsInColumnOrder(ret) = args.row

\* C20 (amended): the fields of a 7-cell row under the standard header,
\* written back in column order, are the original cells without their
\* leading and trailing whitespace, hence the original cells when no cell
\* has any
C20_RoundTripOfTrimmedCells ==
    (MapReturned /\ StandardRow) =>
        /\ FieldsInColumnOrder(ret) = [i \in 1..Len(args.row) |-> strip(args.row[i])]
        /\ (\A i \in 1..Len(args.row) : strip(args.row[i]) = args.row[i])
               => FieldsInColumnOrder(ret) = args.row

\* a mapped row with a padded cell and a cell without padding
C20_Witness ==
    /\ MapReturned
    /\ StandardRow
    /\ \E i \in 1..Len(args.row) : args.row[i] # <<>> /\ strip(args.row[i]) # args.row[i]
    /\ \E i \in 1..Len(args.row) : args.row[i] # <<>> /\ strip(args.row[i]) = args.row[i]

(***************************************************************************)
(* _check_items on rows whose item and clause numbers do not arrive in     *)
(* sorted order: item numbers with one digit, with two digits and with no  *)
(* digit at all, clause numbers whose string order differs from their      *)
(* numeric order, and two item names.                                      *)
(***************************************************************************)
OrderRowValues ==
    {InspectionTableRow(item_number, item_name, clause_number, <<"yaoqiu">>,
                        <<"fuhe">>, <<"fuhe">>, <<>>) :
        item_number \in {<<"2">>, <<"1", "0">>, <<"xu">>},
        item_name \in {<<"yaoqiu">>, <<"fuhe">>},
        clause_number \in {<<"5", ".", "2">>, <<"5", ".", "1", "0">>}}

\* largest number of rows handed to _check_items in the ordering runs
MaxOrderRows == 3

InitOrder ==
    /\ pc = "call"
    /\ \E n \in 0..MaxOrderRows : \E rs \in [1..n -> OrderRowValues] :
           args = [fn |-> "_check_items", rows |-> rs]
    /\ ret = NoValue
    /\ run = 0
    /\ emitted = {}

SpecOrder == InitOrder /\ [][Next]_vars

(***************************************************************************)
(* Order and grouping of the emitted items (SpecOrder)                     *)
(***************************************************************************)
\* the first row of the call that carries the item number
FirstRowOf(item_num) ==
    CHOOSE i \in RowSet : /\ args.rows[i].item_number = item_num
                          /\ \A j \in 1..(i - 1) : args.rows[j].item_number # item_num

\* the items come out in the order of their numeric value
ItemsAscend ==
    \A i, j \in 1..Len(ret) :
        i < j => extract_number(ret[i].item_number) <= extract_number(ret[j].item_number)

\* every item number of the rows has exactly one item
OneItemPerNumber ==
    /\ {ret[i].item_number : i \in 1..Len(ret)} = {args.rows[i].item_number : i \in RowSet}
    /\ \A i, j \in 1..Len(ret) : ret[i].item_number = ret[j].item_number => i = j

\* an item is named as the first row that carries its number
NamedAfterFirstRow ==
    \A i \in 1..Len(ret) :
        ret[i].item_name = args.rows[FirstRowOf(ret[i].item_number)].item_name

\* C23: _check_items emits one item per distinct item_number, in
\* non-decreasing order of the first run of digits of the item_number, and
\* names each item after the first row that carries its item_number.
C23_ItemOrder ==
    ItemsReturned => ItemsAscend /\ OneItemPerNumber /\ NamedAfterFirstRow

\* item 10 arrived before item 2 and was emitted after it, and its later row
\* carries another name than its first row
C23_Witness ==
    /\ ItemsReturned
    /\ Len(args.rows) = 3
    /\ args.rows[1].item_number = <<"1", "0">>
    /\ args.rows[2].item_number = <<"2">>
    /\ args.rows[3].item_number = <<"1", "0">>
    /\ args.rows[3].item_name # args.rows[1].item_name
    /\ Len(ret) = 2
    /\ ret[1].item_number = <<"2">>
(***************************************************************************)
(* C24: rows without item number behind a numbered row (SpecParse)         *)
(***************************************************************************)
\* the raw rows the parser reads whose item-number cell is blank, or absent
\* as in a merged-cell sub-row, and that follow a row with an item number
InheritingPositions(mapped) ==
    {p \in RawPositions :
        /\ Len(RawRow(p)) >= 2
        /\ mapped[p].item_number = <<>>
        /\ \E q \in RawPositions :
               Before(q, p) /\ Len(RawRow(q)) >= 2 /\ Truthy(mapped[q].item_number)}

\* the resolved rows that took their item number from the row before them
InheritedRows ==
    {i \in 2..Len(ret) :
        /\ ret[i].original_item_number = <<>>
        /\ ret[i].item_number = ret[i - 1].item_number
        /\ Truthy(ret[i].item_number)}

\* C24 as stated: in the full audit path every raw row with a blank
\* item-number cell that follows a row with item number N is kept in the
\* resolved sequence, with item_number N; merged-cell sub-rows included
C24_Original ==
    ParseReturned =>
        \E mapped \in {MappedRows} :
            Cardinality(InheritedRows) = Cardinality(InheritingPositions(mapped))
(***************************************************************************)
(* C27: order of the clauses of an item (SpecOrder)                        *)
(***************************************************************************)
\* the clause numbers of the item, as emitted
EmittedClauses(i) == [k \in 1..Len(ret[i].clauses) |-> ret[i].clauses[k].clause_number]

\* the clause numbers of the item's rows, in the order of first appearance
FirstSeenClauses(i) ==
    LET item_rows == SelectSeq(args.rows, LAMBDA r : r.item_number = ret[i].item_number)
    IN  InsertionOrder([k \in 1..Len(item_rows) |-> item_rows[k].clause_number])

SameMembers(s, t) ==
    /\ Len(s) = Len(t)
    /\ {s[k] : k \in 1..Len(s)} = {t[k] : k \in 1..Len(t)}

\* C27 as stated: the clauses of every item are emitted in the order in
\* which their clause numbers first appear among the rows of the item
C27_Original ==
    ItemsReturned => \A i \in 1..Len(ret) : EmittedClauses(i) = FirstSeenClauses(i)

\* C27 (amended): the clauses of every item are emitted in ascending string
\* order of their clause numbers, one clause per distinct clause number of
\* the rows of the item
C27_ClausesInStringOrder ==
    ItemsReturned =>
        \A i \in 1..Len(ret) :
            /\ SameMembers(EmittedClauses(i), FirstSeenClauses(i))
            /\ \A k \in 1..(Len(ret[i].clauses) - 1) :
                   StrLess(ret[i].clauses[k].clause_number,
                           ret[i].clauses[k + 1].clause_number)

\* an item whose rows bring clause 5.2 before clause 5.10, emitted with
\* clause 5.10 first
C27_Witness ==
    /\ ItemsReturned
    /\ \E i \in 1..Len(ret) :
           /\ FirstSeenClauses(i) = << <<"5", ".", "2">>, <<"5", ".", "1", "0">> >>
           /\ EmittedClauses(i) = << <<"5", ".", "1", "0">>, <<"5", ".", "2">> >>
(***************************************************************************)
(* parse_inspection_table: the resolver of the public API, on one table    *)
(***************************************************************************)
\* one pass of the loop body of lines 692-745; st holds all_rows and the
\* three running values
public_parse_row(st, row, col_indices, header_col_count) ==
    IF Len(row) < 2 THEN st
    ELSE
    LET mapped == map_row_columns(row, col_indices, header_col_count)
        real_number == extract_number_from_continuation(mapped.item_number)
        is_continuation ==
            /\ Truthy(mapped.item_number)
            /\ Contains(mapped.item_number, <<"xu">>)
            /\ Truthy(real_number)
        marked_number == IF is_continuation THEN real_number ELSE mapped.item_number
        inherits ==
            /\ (~Truthy(marked_number) \/ is_continuation)
            /\ Truthy(st.last_item_number)
            /\ (~Truthy(marked_number) \/ marked_number = st.last_item_number)
        item_number == IF inherits THEN st.last_item_number ELSE marked_number
        item_name ==
            IF inherits /\ ~Truthy(mapped.item_name) THEN st.last_item_name
            ELSE mapped.item_name
        clause_number ==
            IF ~Truthy(mapped.clause_number) /\ Truthy(st.last_clause_number)
            THEN st.last_clause_number
            ELSE mapped.clause_number
        last_item_number == IF Truthy(item_number) THEN item_number ELSE st.last_item_number
        last_item_name == IF Truthy(item_number) THEN item_name ELSE st.last_item_name
        last_clause_number ==
            IF Truthy(clause_number) THEN clause_number ELSE st.last_clause_number
    IN  [all_rows |->
             IF is_header_row(item_number, item_name) THEN st.all_rows
             ELSE Append(st.all_rows,
                         InspectionTableRow(Or(item_number, last_item_number),
                                            Or(item_name, last_item_name),
                                            Or(clause_number, last_clause_number),
                                            mapped.requirement_text,
                                            mapped.inspection_result,
                                            mapped.conclusion, mapped.remark)),
         last_item_number |-> last_item_number,
         last_item_name |-> last_item_name,
         last_clause_number |-> last_clause_number]

RECURSIVE public_parse_rows_upto(_, _, _)
\* the loop of line 692 over the first n rows of the table
public_parse_rows_upto(table_data, col_indices, n) ==
    IF n = 0
    THEN [all_rows |-> <<>>, last_item_number |-> <<>>, last_item_name |-> <<>>,
          last_clause_number |-> <<>>]
    ELSE public_parse_row(public_parse_rows_upto(table_data, col_indices, n - 1),
                          table_data.rows[n], col_indices, Len(table_data.headers))

\* all_rows as line 747 hands it to _check_items (empty after an early return)
public_all_rows(table_data) ==
    IF table_data = NoTable \/ table_data.rows = <<>> THEN <<>>
    ELSE LET col_indices == get_column_indices(table_data.headers)
         IN  IF DOMAIN col_indices = {} THEN <<>>
             ELSE public_parse_rows_upto(table_data, col_indices,
                                         Len(table_data.rows)).all_rows

parse_inspection_table(table_data) ==
    CHOOSE items \in {check_items(rows) : rows \in {public_all_rows(table_data)}} : TRUE

(***************************************************************************)
(* Both resolvers on one table under the seven standard headers            *)
(* (SpecTable): rows with a number, without number (with and without       *)
(* name, with and without clause number), with a mark before the number,   *)
(* with a bare mark, with a repeated number, with the header's word        *)
(* in the number cell and nothing else of the header; a two-cell sub-row   *)
(***************************************************************************)
TableRows ==
    LET REQUIREMENT == <<"yaoqiu">>
        MEETS == <<"fuhe", "yaoqiu">>
        NAME_1 == <<"jian", "yan">>
        NAME_2 == <<"xiang", "mu">>
        CLAUSE_1 == <<"5", ".", "1">>
        CLAUSE_2 == <<"5", ".", "2">>
        Full(item_number, item_name, clause_number) ==
            <<item_number, item_name, clause_number, REQUIREMENT, MEETS, PASS, NA>>
    IN  {Full(<<"1">>, NAME_1, CLAUSE_1),
         Full(<<"2">>, NAME_2, CLAUSE_2),
         Full(<<"1">>, <<>>, <<>>),
         Full(<<>>, <<>>, CLAUSE_2),
         Full(<<>>, NAME_2, <<>>),
         Full(<<"xu", "1">>, <<>>, <<>>),
         Full(<<"xu", "-", "2">>, NAME_1, CLAUSE_1),
         Full(<<"xu">>, <<>>, CLAUSE_2),
         Full(H_ITEM_NUMBER, <<>>, <<>>),
         <<REQUIREMENT, MEETS>>}

\* largest number of rows in the table
MaxTableRows == 3

InitTable ==
    /\ pc = "call"
    /\ \E n \in 0..MaxTableRows : \E rows \in [1..n -> TableRows] :
           \E table_data \in {TableData(1, TABLE_HEADERS, rows)} :
               \/ args = [fn |-> "_parse_inspection_tables", tables |-> <<table_data>>]
               \/ args = [fn |-> "parse_inspection_table", table_data |-> table_data]
    /\ ret = NoValue
    /\ run = 0
    /\ emitted = {}

ParseInspectionTable ==
    /\ pc = "call"
    /\ args.fn = "parse_inspection_table"
    /\ ret' = parse_inspection_table(args.table_data)
    /\ pc' = "done"
    /\ UNCHANGED <<args, run, emitted>>

SpecTable == InitTable /\ [][ParseInspectionTables \/ ParseInspectionTable]_vars
(***************************************************************************)
(* C30: the two resolvers on the rows of one table (SpecTable)             *)
(***************************************************************************)
TableReturned == Returned("parse_inspection_table")

\* the rows the full audit path resolves from the table of the public call
AuditRowsOfTable == parse_inspection_tables(<<args.table_data>>)

\* C30 as stated: on the rows of a single table the public resolver keeps
\* the rows the resolver of the full audit path keeps, with the same
\* item_number, item_name and clause_number, and _check_items builds the
\* same tree from either
C30_Original ==
    TableReturned =>
        \E audit_rows \in {AuditRowsOfTable}, public_rows \in {public_all_rows(args.table_data)} :
            /\ Len(public_rows) = Len(audit_rows)
            /\ \A i \in 1..Len(public_rows) :
                   /\ public_rows[i].item_number = audit_rows[i].item_number
                   /\ public_rows[i].item_name = audit_rows[i].item_name
                   /\ public_rows[i].clause_number = audit_rows[i].clause_number
            /\ ret = check_items(audit_rows)
(***************************************************************************)
(* C25: rows with the continuation mark in the item-number cell (SpecTable) *)
(***************************************************************************)
\* the resolved rows whose item-number cell holds the mark
MarkedCells == {i \in 1..Len(ret) : Contains(ret[i].original_item_number, <<"xu">>)}

\* the digits behind the first mark of the cell, blanks and dashes skipped
DigitsBehindMark(s) ==
    LET at == CHOOSE i \in 1..Len(s) : s[i] = "xu" /\ \A j \in 1..(i - 1) : s[j] # "xu"
    IN  DigitRun(skip_blanks_and_dashes(SubSeq(s, at + 1, Len(s))))

\* C25 as stated: every row whose item-number cell contains the mark, a
\* bare mark without digits included, is resolved with
\* has_continuation_mark = true, with the cell as original_item_number and
\* with the digits behind the mark, when there are any, as item_number
C25_Original ==
    ParseReturned =>
        \E mapped \in {MappedRows} :
            /\ Cardinality(MarkedCells) =
                   Cardinality({p \in RawPositions :
                                    /\ Len(RawRow(p)) >= 2
                                    /\ Contains(mapped[p].item_number, <<"xu">>)})
            /\ \A i \in MarkedCells :
                   /\ ret[i].has_continuation_mark
                   /\ DigitsBehindMark(ret[i].original_item_number) # <<>> =>
                          ret[i].item_number = DigitsBehindMark(ret[i].original_item_number)

(***************************************************************************)
(* C26: inheritance of the clause number (SpecTable)                       *)
(***************************************************************************)
\* the clause number supplied by the nearest row before p, or by p itself
RECURSIVE ClauseInForce(_, _)
ClauseInForce(mapped, n) ==
    IF n = 0 THEN <<>>
    ELSE IF Len(args.tables[1].rows[n]) >= 2 /\ Truthy(mapped[<<1, n>>].clause_number)
         THEN mapped[<<1, n>>].clause_number
         ELSE ClauseInForce(mapped, n - 1)

\* the rows of the table that are resolved (all but the rows of one cell and
\* the rows the header filter drops), in reading order
KeptPositions(mapped) ==
    Increasing({n \in 1..Len(args.tables[1].rows) :
                    /\ Len(args.tables[1].rows[n]) >= 2
                    /\ ~is_header_row(mapped[<<1, n>>].item_number, mapped[<<1, n>>].item_name)},
               Len(args.tables[1].rows))

\* C26 as stated: a resolved row has its own clause number, or, when its
\* clause-number cell is blank, the clause number of the nearest preceding
\* row that supplied one, and a blank one only if no earlier row supplied one
C26_Original ==
    ParseReturned =>
        \E mapped \in {MappedRows} : \E kept \in {KeptPositions(mapped)} :
            /\ Len(ret) = Len(kept)
            /\ \A i \in 1..Len(ret) : ret[i].clause_number = ClauseInForce(mapped, kept[i])
(***************************************************************************)
(* C21: resolving the resolved rows once more (SpecTable)                  *)
(***************************************************************************)
\* the resolved rows written back as a table under the standard headers
ResolvedTable(rows) ==
    TableData(1, TABLE_HEADERS,
              [i \in 1..Len(rows) |->
                  <<rows[i].item_number, rows[i].item_name, rows[i].clause_number,
                    rows[i].requirement_text, rows[i].inspection_result,
                    rows[i].conclusion, rows[i].remark>>])

\* the second pass kept every row and changed none of the resolved values
SameResolution(first, second) ==
    /\ Len(second) = Len(first)
    /\ \A i \in 1..Len(first) :
           /\ second[i].item_number = first[i].item_number
           /\ second[i].item_name = first[i].item_name
           /\ second[i].clause_number = first[i].clause_number

\* C21: continuation resolution is idempotent in either resolver: the
\* resolved rows, given to the same resolver as the rows of a table, are
\* all kept and keep their item_number, item_name and clause_number
C21_Idempotent ==
    /\ ParseReturned =>
           SameResolution(ret, parse_inspection_tables(<<ResolvedTable(ret)>>))
    /\ TableReturned =>
           \E first \in {public_all_rows(args.table_data)} :
               /\ ret = check_items(first)
               /\ SameResolution(first, public_all_rows(ResolvedTable(first)))

\* a table with a row that inherits its item number, a row whose mark was
\* stripped and a row that the first pass dropped, resolved by each resolver
C21_Witness ==
    /\ pc = "done"
    /\ \E rows \in {IF ParseReturned THEN args.tables[1].rows ELSE args.table_data.rows} :
           /\ Len(rows) = 3
           /\ rows[1][1] = <<"1">>
           /\ rows[2][1] = <<"xu", "1">>
           /\ Len(rows[3]) = 2
    /\ ParseReturned => Len(ret) = 2 /\ ret[2].item_number = <<"1">>
    /\ TableReturned => Len(ret) = 1 /\ Len(ret[1].clauses[1].requirements) = 3
(***************************************************************************)
(* Calls of _map_row_columns on rows of six cells under the seven          *)
(* standard headers (SpecSixCells)                                         *)
(***************************************************************************)
InitSixCells ==
    /\ pc = "call"
    /\ \E first \in {<<"1">>, <<" ", "1", "2", " ">>, <<"xu", "1">>, <<"xu">>, <<>>,
                     <<"yaoqiu">>, <<"1", "yaoqiu">>} :
       \E name \in {<<>>, <<"jian", "yan">>} :
       \E fifth \in {PASS, FAIL, NA, <<>>, <<" ">>, <<" ", "fuhe", " ">>,
                     <<"fuhe", "yaoqiu">>, DoubleDash} :
       \E sixth \in {PASS, NA, <<>>, <<" ", "/", " ">>} :
           args = [fn |-> "_map_row_columns",
                   row |-> <<first, name, <<"5", ".", "1">>, <<" ", "yaoqiu">>, fifth, sixth>>,
                   col_indices |-> get_column_indices(TABLE_HEADERS),
                   header_col_count |-> Len(TABLE_HEADERS)]
    /\ ret = NoValue
    /\ run = 0
    /\ emitted = {}

SpecSixCells == InitSixCells /\ [][MapRowColumns]_vars

(***************************************************************************)
(* C29: rows of six cells with an item number (SpecSixCells)               *)
(***************************************************************************)
\* the cell without the white space around it
Trimmed(i) == strip(args.row[i])

\* the first cell is made of digits only, or holds the mark
Numbered ==
    \/ Trimmed(1) # <<>> /\ \A k \in 1..Len(Trimmed(1)) : Trimmed(1)[k] \in Digits
    \/ \E k \in 1..Len(args.row[1]) : args.row[1][k] = "xu"

\* the fifth cell reads as a conclusion
FifthIsConclusion == Trimmed(5) \in {<<"fuhe">>, <<"bu", "fuhe">>, <<"/">>, <<>>}

\* C29: a 6-cell row under a 7-column header whose first cell is all digits
\* or contains the mark is mapped cell by cell for its first four cells;
\* when the trimmed fifth cell is one of the four conclusion values it is the
\* conclusion, the inspection result is empty and the sixth cell the remark;
\* otherwise the fifth cell is the inspection result, the sixth the
\* conclusion and the remark is empty
C29_SixCells ==
    (MapReturned /\ Len(args.row) = 6 /\ args.header_col_count = 7 /\ Numbered) =>
        /\ ret.item_number = Trimmed(1)
        /\ ret.item_name = Trimmed(2)
        /\ ret.clause_number = Trimmed(3)
        /\ ret.requirement_text = Trimmed(4)
        /\ FifthIsConclusion =>
               /\ ret.inspection_result = <<>>
               /\ ret.conclusion = Trimmed(5)
               /\ ret.remark = Trimmed(6)
        /\ ~FifthIsConclusion =>
               /\ ret.inspection_result = Trimmed(5)
               /\ ret.conclusion = Trimmed(6)
               /\ ret.remark = <<>>

\* a numbered row whose padded fifth cell is a conclusion, with a remark
C29_Witness ==
    /\ MapReturned
    /\ Len(args.row) = 6
    /\ Numbered
    /\ args.row[5] = <<" ", "fuhe", " ">>
    /\ ret.conclusion = <<"fuhe">>
    /\ ret.remark = <<"/">>
(***************************************************************************)
(* check_conclusions                                                       *)
(***************************************************************************)
\* line 769 with the exception of _is_conclusion_valid
conclusions_equal_or_excepted(actual, expected) == is_conclusion_valid(actual, expected)

\* actual == expected (line 769)
conclusions_equal(actual, expected) == actual = expected

\* clause.conclusion.strip() if clause.conclusion else ''
actual_conclusion(clause) ==
    IF Truthy(clause.conclusion) THEN strip(clause.conclusion) ELSE <<>>

\* the clause after lines 762-773
checked_clause(clause) ==
    LET expected == calculate_expected_conclusion(clause.requirements)
    IN  [clause EXCEPT !.expected_conclusion = expected,
                       !.is_conclusion_correct =
                           conclusions_equal(actual_conclusion(clause), expected)]

\* the details of the ErrorItem of lines 784-802 for a checked clause
conclusion_error(item, clause) ==
    [error_code |-> get_error_code(clause.expected_conclusion, actual_conclusion(clause)),
     item_number |-> item.item_number, item_name |-> item.item_name,
     clause_number |-> clause.clause_number,
     expected_conclusion |-> clause.expected_conclusion,
     actual_conclusion |-> actual_conclusion(clause),
     requirements |-> [k \in 1..Len(clause.requirements) |->
                          [text |-> clause.requirements[k].requirement_text,
                           result |-> clause.requirements[k].inspection_result]]]

\* the item after the loop body of lines 760-812: its clauses checked, one
\* issue appended per incorrect clause, its status set
checked_item(item) ==
    LET clauses == [k \in 1..Len(item.clauses) |-> checked_clause(item.clauses[k])]
        incorrect == SelectSeq(clauses, LAMBDA c : ~c.is_conclusion_correct)
        issues == item.issues \o
                  [k \in 1..Len(incorrect) |->
                      [clause_number |-> incorrect[k].clause_number,
                       expected |-> incorrect[k].expected_conclusion,
                       actual |-> actual_conclusion(incorrect[k])]]
    IN  InspectionItemCheck(item.item_number, item.item_name, clauses, issues,
                            item_status(clauses, issues))

RECURSIVE check_conclusions_upto(_, _)
\* the counts, the errors and the items after the first n items
check_conclusions_upto(items, n) ==
    IF n = 0 THEN [correct_count |-> 0, incorrect_count |-> 0, errors |-> <<>>, items |-> <<>>]
    ELSE LET before == check_conclusions_upto(items, n - 1)
             item == checked_item(items[n])
             incorrect == SelectSeq(item.clauses, LAMBDA c : ~c.is_conclusion_correct)
         IN  [correct_count |-> before.correct_count + Len(item.clauses) - Len(incorrect),
              incorrect_count |-> before.incorrect_count + Len(incorrect),
              errors |-> before.errors \o
                         [k \in 1..Len(incorrect) |-> conclusion_error(item, incorrect[k])],
              items |-> Append(before.items, item)]

\* the returned triple, and the items as the call leaves them
check_conclusions(items) == check_conclusions_upto(items, Len(items))

(***************************************************************************)
(* Calls of check_conclusions (SpecConclusions) on one or two items as the *)
(* tests build them: clauses of one requirement, not yet checked           *)
(***************************************************************************)
\* largest number of clauses in the items of a call
MaxClauseChecks == 3

InitConclusions ==
    /\ pc = "call"
    /\ LET Clauses ==
               {ClauseCheck(<<"5", ".", "1">>,
                            <<RequirementCheck(<<"yaoqiu">>, result, <<>>)>>,
                            conclusion, <<>>, FALSE) :
                   result \in {<<"fuhe", "yaoqiu">>, DoubleDash, <<"bu", "fuhe", "yaoqiu">>},
                   conclusion \in {PASS, FAIL, NA, <<" ", "fuhe", " ">>}}
       IN  \E n \in 0..MaxClauseChecks : \E k \in 0..n : \E clauses \in [1..n -> Clauses] :
           \E issues \in {<<>>, <<[clause_number |-> <<"5", ".", "1">>,
                                  expected |-> PASS, actual |-> <<>>]>>} :
               args = [fn |-> "check_conclusions",
                       items |->
                           <<InspectionItemCheck(<<"1">>, <<"yaoqiu">>,
                                                 SubSeq(clauses, 1, k), issues, "pass")>>
                           \o (IF k < n
                               THEN <<InspectionItemCheck(<<"2">>, <<"yaoqiu">>,
                                                          SubSeq(clauses, k + 1, n),
                                                          <<>>, "pass")>>
                               ELSE <<>>)]
    /\ ret = NoValue
    /\ run = 0
    /\ emitted = {}

CheckConclusions ==
    /\ pc = "call"
    /\ args.fn = "check_conclusions"
    /\ ret' = check_conclusions(args.items)
    /\ pc' = "done"
    /\ UNCHANGED <<args, run, emitted>>

SpecConclusions == InitConclusions /\ [][CheckConclusions]_vars

(***************************************************************************)
(* C28: the counts of check_conclusions (SpecConclusions)                  *)
(***************************************************************************)
ConclusionsReturned == Returned("check_conclusions")

\* the clauses of the call, by item and place
ClausePlaces ==
    UNION {{<<i, k>> : k \in 1..Len(args.items[i].clauses)} : i \in 1..Len(args.items)}

\* the conclusion the clause should carry, from the results of its
\* requirements: a failing result wins, results that are all dashes give "/"
ExpectedOf(clause) ==
    LET results == {clause.requirements[k].inspection_result :
                        k \in 1..Len(clause.requirements)}
    IN  IF \E r \in results : Contains(r, <<"bu", "fuhe">>) THEN <<"bu", "fuhe">>
        ELSE IF results \subseteq {DoubleDash, <<"/">>} THEN <<"/">>
        ELSE <<"fuhe">>

\* the trimmed conclusion of the clause is the expected one
ExactlyRight(p) ==
    strip(args.items[p[1]].clauses[p[2]].conclusion) = ExpectedOf(args.items[p[1]].clauses[p[2]])

Audits == 1..2

\* the running state shared by the audits, as an attribute of the checker
\* would be: the values left by the audit that made the last step
running_state_of_last_step(a) ==
    IF run = 0 THEN ret[a].parse
    ELSE [ret[a].parse EXCEPT !.last_item_number = ret[run].parse.last_item_number,
                              !.last_item_name = ret[run].parse.last_item_name,
                              !.last_clause_number = ret[run].parse.last_clause_number]

\* last_item_number, last_item_name, last_clause_number and all_rows are
\* local variables of the call (lines 202-206; __init__ keeps no such state)
running_state(a) == ret[a].parse

\* largest number of rows in the table of an audit
MaxInterleavedRows == 2

InitInterleaved ==
    /\ LET Full(item_number, item_name, clause_number) ==
               <<item_number, item_name, clause_number, <<"yaoqiu">>,
                 <<"fuhe", "yaoqiu">>, PASS, NA>>
           Rows == {Full(<<"1">>, <<"jian", "yan">>, <<"5", ".", "1">>),
                    Full(<<"2">>, <<"xiang", "mu">>, <<"5", ".", "2">>),
                    Full(<<>>, <<"xiang", "mu">>, <<>>)}
       IN  \E n \in 0..MaxInterleavedRows, m \in 0..MaxInterleavedRows :
           \E first \in [1..n -> Rows], second \in [1..m -> Rows] :
               args = [fn |-> "check_inspection_items",
                       tables |-> <<TableData(1, TABLE_HEADERS, first),
                                    TableData(1, TABLE_HEADERS, second)>>]
    /\ \E start \in {parse_rows_upto(parse_tables_upto(<<>>, 0), args.tables[1],
                                      get_column_indices(TABLE_HEADERS), 0)} :
           \E frame \in {[parse |-> start, read |-> 0, serial |-> serial_start,
                          validated |-> 0, result |-> NoValue]} :
               ret = <<frame, frame>>
    /\ pc = <<IF args.tables[1].rows = <<>> THEN "validate" ELSE "resolve",
              IF args.tables[2].rows = <<>> THEN "validate" ELSE "resolve">>
    /\ run = 0
    /\ emitted = {}

\* one pass of the loop of line 220 in audit a
ResolveRow(a) ==
    /\ pc[a] = "resolve"
    /\ \E table_data \in {args.tables[a]}, st \in {running_state(a)} :
       \E col_indices \in {get_column_indices(table_data.headers)} :
       \E parse \in {parse_row(st, table_data.rows[ret[a].read + 1], table_data.page_num,
                               col_indices, Len(table_data.headers))} :
           /\ ret' = [ret EXCEPT ![a].parse = parse, ![a].read = @ + 1]
           /\ pc' = [pc EXCEPT ![a] = IF ret[a].read + 1 = Len(table_data.rows)
                                      THEN "validate" ELSE "resolve"]
    /\ run' = a
    /\ UNCHANGED <<args, emitted>>

\* one pass of the loop of line 1088 in audit a
ValidateRow(a) ==
    /\ pc[a] = "validate"
    /\ ret[a].validated < Len(ret[a].parse.all_rows)
    /\ \E serial \in {serial_step(ret[a].serial, ret[a].parse.all_rows,
                                   ret[a].validated + 1)} :
           ret' = [ret EXCEPT ![a].serial = serial, ![a].validated = @ + 1]
    /\ run' = a
    /\ UNCHANGED <<pc, args, emitted>>

\* lines 113-142 in audit a, once its validator has seen every row
FinishAudit(a) ==
    /\ pc[a] = "validate"
    /\ ret[a].validated = Len(ret[a].parse.all_rows)
    /\ \E all_rows \in {ret[a].parse.all_rows} : \E item_checks \in {check_items(all_rows)} :
           ret' = [ret EXCEPT ![a].result =
                      [audit_result(<<args.tables[a]>>, all_rows, item_checks)
                          EXCEPT !.errors = check_non_empty_fields(all_rows)
                                            \o ret[a].serial.errors
                                            \o collect_inspection_errors(item_checks)]]
    /\ pc' = [pc EXCEPT ![a] = "done"]
    /\ run' = a
    /\ UNCHANGED <<args, emitted>>

NextInterleaved == \E a \in Audits : ResolveRow(a) \/ ValidateRow(a) \/ FinishAudit(a)

SpecInterleaved == InitInterleaved /\ [][NextInterleaved]_vars

(***************************************************************************)
(* C22: audits on one checker do not disturb each other (SpecInterleaved)  *)
(***************************************************************************)
\* C22: when two audits run interleaved, or one after the other, on the
\* same InspectionItemChecker, each resolves the rows and reports the
\* findings it resolves and reports when run alone
C22_AuditsAlone ==
    \A a \in Audits :
        pc[a] = "done" =>
            /\ ret[a].parse.all_rows = parse_inspection_tables(<<args.tables[a]>>)
            /\ ret[a].result = check_inspection_items(<<args.tables[a]>>)

\* both audits are done and the first one finished last: its row without
\* number inherited item number 1 while the other audit resolved item 2
C22_Witness ==
    /\ pc[1] = "done" /\ pc[2] = "done"
    /\ run = 1
    /\ Len(args.tables[1].rows) = 2
    /\ args.tables[1].rows[1][1] = <<"1">>
    /\ args.tables[1].rows[2][1] = <<>>
    /\ Len(args.tables[2].rows) = 1
    /\ args.tables[2].rows[1][1] = <<"2">>
    /\ ret[1].parse.all_rows[2].item_number = <<"1">>
    /\ ret[1].result.total_items = 1

====
